---- MODULE Spec2Model ----
(***************************************************************************)
(* GoldenBridge ambulance arrival system.                                  *)
(*                                                                         *)
(* The module models                                                       *)
(*   - the clinical score calculators (ai_modules/clinical_scoring.py),    *)
(*   - the severity / alert / intervention synthesiser                     *)
(*     (ai_modules/ai_triage.py),                                          *)
(*   - the pattern-based PII redactor (utils/aparavi_redactor.py),         *)
(*   - the session state of the clinical dashboard and the resources an    *)
(*     arrival consumes (dashboard/advanced_clinical_dashboard.py),        *)
(* each Python function as an operator of the same name.  A Python dict is *)
(* a TLA+ function whose DOMAIN is the set of keys that are present, so    *)
(* that d.get(k, default) and d[k] (which raises KeyError) differ.         *)
(*                                                                         *)
(* Numbers that Python holds as floats with two decimals are held here as  *)
(* integers in hundredths (1.0 is 100); the trauma score is held in        *)
(* ten-thousandths before it is rounded.                                   *)
(***************************************************************************)
EXTENDS Integers, Sequences, FiniteSets, TLC

VARIABLES
    call,               \* the last calculator invocation: [fn, vitals, symptoms, scores, history, result]
    red,                \* the last redaction: [step, text, detected, redacted, compliant]
    patients,           \* st.session_state.patients: patient id -> patient record
    selected_patient,   \* st.session_state.selected_patient
    hospital_resources, \* st.session_state.hospital_resources
    next_patient_num,   \* st.session_state.next_patient_num
    next_amb_num,       \* st.session_state.next_amb_num
    clicks,             \* sidebar buttons clicked so far
    upd,                \* the last call of update_hospital_resources: [caller, before, predictions, active_alerts, after]
    voice,              \* the voice simulator: [sim, now, returned]
    er                  \* the ER dashboard running: [app, runs, telemetry_history, voice_notes, ...]

dashVars == <<patients, selected_patient, hospital_resources, next_patient_num, next_amb_num,
              clicks, upd>>
vars == <<call, red, dashVars, voice, er>>

(***************************************************************************)
(* Python dicts and exceptions                                             *)
(***************************************************************************)

EmptyDict == [k \in {} |-> 0]

\* dict.get(key, default)
Get(d, k, default) == IF k \in DOMAIN d THEN d[k] ELSE default

\* The dict d with only the keys in K kept.
Restrict(d, K) == [k \in K |-> d[k]]

\* Every dict obtained from a dict of the set full by dropping any subset of
\* its keys (keys being the keys of the dicts of full).
WithMissingKeys(full, keys) == {Restrict(d, K) : d \in full, K \in SUBSET keys}

\* x in xs, for a list xs
InList(x, xs) == \E i \in 1..Len(xs) : xs[i] = x

\* What a Python function "returns" when subscripting d[k] raises.
KeyError == [raised |-> "KeyError"]

Raised(r) == "raised" \in DOMAIN r

(***************************************************************************)
(* Float arithmetic: hr / sbp and round(x, 2)                              *)
(***************************************************************************)

Abs(x) == IF x < 0 THEN -x ELSE x

\* num/den > a/b, exactly, for den # 0 and b > 0.
RatGT(num, den, a, b) == IF den > 0 THEN num * b > a * den ELSE num * b < a * den

RECURSIVE DoubleMod(_, _, _)
\* (r * 2^n) mod d
DoubleMod(r, d, n) == IF n = 0 THEN r ELSE DoubleMod((2 * r) % d, d, n - 1)

RECURSIVE ScaleUp(_, _)
\* The least n * 2^k that is >= d, for n > 0.
ScaleUp(n, d) == IF n >= d THEN n ELSE ScaleUp(2 * n, d)

\* The 53-bit significand a double keeps of n/d (n, d > 0) leaves the remainder
\* FloatRem(n, d)/d' of the last kept bit, d' being d scaled so that
\* 1 <= n'/d' < 2: the double nearest to n/d is n/d itself when the remainder is
\* 0, lies above n/d when the remainder is more than half, below otherwise.
FloatDen(n, d) == ScaleUp(d, n)
FloatNum(n, d) == ScaleUp(n, FloatDen(n, d))
FloatRem(n, d) == DoubleMod(FloatNum(n, d) % FloatDen(n, d), FloatDen(n, d), 52)
FloatIsExact(n, d) == FloatRem(n, d) = 0
FloatIsAbove(n, d) == 2 * FloatRem(n, d) > FloatDen(n, d)

\* round(n / d, 2) in hundredths, for n >= 0 and d > 0: Python rounds the
\* double nearest to n/d (int / int is correctly rounded) to two decimals, half
\* to even.  n/d is halfway between two hundredths only when 200*n/d is an odd
\* integer; then the double decides: it is the halfway point itself (half to
\* even applies) or lies on one side of it.
Round2Pos(n, d) ==
    LET f   == (100 * n) \div d
        rem == 100 * n - f * d
    IN  IF 2 * rem < d THEN f
        ELSE IF 2 * rem > d THEN f + 1
        ELSE IF FloatIsExact(n, d) THEN (IF f % 2 = 0 THEN f ELSE f + 1)
        ELSE IF FloatIsAbove(n, d) THEN f + 1 ELSE f

\* round(num / den, 2) in hundredths, den # 0.
Round2(num, den) ==
    IF num = 0 THEN 0
    ELSE IF (num > 0) = (den > 0) THEN Round2Pos(Abs(num), Abs(den))
    ELSE -Round2Pos(Abs(num), Abs(den))

(***************************************************************************)
(* clinical_scoring.py: ClinicalScorer                                     *)
(***************************************************************************)

\* random.randint(8, 18) / random.randint(0, 5): the values calculate_nihss
\* may draw.
NihssDraws(symptoms) ==
    IF Get(symptoms, "stroke_suspected", FALSE) THEN 8..18 ELSE 0..5

\* calculate_nihss(symptoms) when the random draw is score.
calculate_nihss(symptoms, score) ==
    [score          |-> score,
     interpretation |-> IF Get(symptoms, "stroke_suspected", FALSE)
                        THEN (IF score > 15 THEN "Moderate to Severe Stroke" ELSE "Moderate Stroke")
                        ELSE "Minor or No Stroke",
     max_score      |-> 42,
     recommendation |-> IF score > 7 THEN "Immediate CT and Neuro consult" ELSE "Monitor"]

gcs_value(gcs) == IF gcs >= 13 THEN 4 ELSE IF gcs >= 9 THEN 3 ELSE IF gcs >= 6 THEN 2 ELSE 1
\* sbp_value with the top band starting at 89
sbp_value_from_89(sbp) == IF sbp >= 89 THEN 4 ELSE IF sbp >= 76 THEN 3 ELSE IF sbp >= 50 THEN 2 ELSE 1

sbp_value(sbp) == IF sbp > 89 THEN 4 ELSE IF sbp >= 76 THEN 3 ELSE IF sbp >= 50 THEN 2 ELSE 1
rr_value(rr)   == IF 10 <= rr /\ rr <= 29 THEN 4 ELSE IF rr > 29 THEN 3 ELSE IF rr >= 6 THEN 2 ELSE 1

\* rts in ten-thousandths: 0.9368*g + 0.7326*s + 0.2908*r.  No sum of the 64
\* possible ones lies within 0.03 of 5 or 7 or halfway between two hundredths,
\* so the float sum compares and rounds as the exact one does.
rts10000(vitals) ==
    9368 * gcs_value(Get(vitals, "gcs", 15))
    + 7326 * sbp_value(Get(vitals, "blood_pressure_systolic", 120))
    + 2908 * rr_value(Get(vitals, "respiratory_rate", 16))

\* calculate_trauma_score(vitals); score and max_score are in hundredths.
calculate_trauma_score(vitals) ==
    LET rts == rts10000(vitals)
    IN  [score          |-> Round2(rts, 10000),
         interpretation |-> IF rts > 70000 THEN "Minor Trauma"
                            ELSE IF rts > 50000 THEN "Moderate Trauma" ELSE "Severe Trauma",
         max_score      |-> 784,
         recommendation |-> IF rts < 50000 THEN "Trauma Team Activation"
                            ELSE "Standard Trauma Protocol"]

\* The sequence of the x[i] for which keep[i], in order.
RECURSIVE Kept(_, _)
Kept(xs, keep) ==
    IF xs = <<>> THEN <<>>
    ELSE (IF Head(keep) THEN <<Head(xs)>> ELSE <<>>) \o Kept(Tail(xs), Tail(keep))

RECURSIVE SumSeq(_)
SumSeq(xs) == IF xs = <<>> THEN 0 ELSE Head(xs) + SumSeq(Tail(xs))

\* calculate_qsofa with the systolic criterion read as SBP < 100
calculate_qsofa_sbp_strict(vitals) ==
    LET met == << Get(vitals, "respiratory_rate", 16) >= 22,
                  Get(vitals, "gcs", 15) < 15,
                  Get(vitals, "blood_pressure_systolic", 120) < 100 >>
        criteria == Kept(<<"Tachypnea (RR >=22)", "Altered Mental Status (GCS <15)",
                           "Hypotension (SBP <=100)">>, met)
        score == Len(criteria)
    IN  [score          |-> score,
         interpretation |-> IF score >= 2 THEN "High Sepsis Risk"
                            ELSE IF score = 1 THEN "Moderate Risk" ELSE "Low Risk",
         max_score      |-> 3,
         criteria_met   |-> criteria,
         recommendation |-> IF score >= 2 THEN "Immediate Sepsis Protocol" ELSE "Monitor for Sepsis"]

\* calculate_qsofa(vitals)
calculate_qsofa(vitals) ==
    LET met == << Get(vitals, "respiratory_rate", 16) >= 22,
                  Get(vitals, "gcs", 15) < 15,
                  Get(vitals, "blood_pressure_systolic", 120) <= 100 >>
        criteria == Kept(<<"Tachypnea (RR >=22)", "Altered Mental Status (GCS <15)",
                           "Hypotension (SBP <=100)">>, met)
        score == Len(criteria)
    IN  [score          |-> score,
         interpretation |-> IF score >= 2 THEN "High Sepsis Risk"
                            ELSE IF score = 1 THEN "Moderate Risk" ELSE "Low Risk",
         max_score      |-> 3,
         criteria_met   |-> criteria,
         recommendation |-> IF score >= 2 THEN "Immediate Sepsis Protocol" ELSE "Monitor for Sepsis"]

\* calculate_stemi_checklist with ST elevation weighted like the other criteria
calculate_stemi_checklist_flat(symptoms) ==
    LET met == << Get(symptoms, "chest_pain", FALSE), Get(symptoms, "st_elevation", FALSE),
                  Get(symptoms, "diaphoresis", FALSE), Get(symptoms, "nausea", FALSE) >>
        score == SumSeq(Kept(<<1, 1, 1, 1>>, met))
    IN  [score          |-> score,
         interpretation |-> IF score >= 3 THEN "STEMI Likely"
                            ELSE IF score >= 1 THEN "Possible ACS" ELSE "Unlikely STEMI",
         criteria_met   |-> Kept(<<"Chest Pain Present", "ST Elevation on ECG",
                                   "Diaphoresis", "Nausea/Vomiting">>, met),
         recommendation |-> IF score >= 3 THEN "Activate Cath Lab Immediately"
                            ELSE "Troponin and Monitor"]

\* calculate_stemi_checklist(symptoms)
calculate_stemi_checklist(symptoms) ==
    LET met == << Get(symptoms, "chest_pain", FALSE), Get(symptoms, "st_elevation", FALSE),
                  Get(symptoms, "diaphoresis", FALSE), Get(symptoms, "nausea", FALSE) >>
        score == SumSeq(Kept(<<1, 2, 1, 1>>, met))
    IN  [score          |-> score,
         interpretation |-> IF score >= 3 THEN "STEMI Likely"
                            ELSE IF score >= 1 THEN "Possible ACS" ELSE "Unlikely STEMI",
         criteria_met   |-> Kept(<<"Chest Pain Present", "ST Elevation on ECG",
                                   "Diaphoresis", "Nausea/Vomiting">>, met),
         recommendation |-> IF score >= 3 THEN "Activate Cath Lab Immediately"
                            ELSE "Troponin and Monitor"]

\* calculate_airway_risk(vitals, symptoms)
calculate_airway_risk(vitals, symptoms) ==
    LET gcs  == Get(vitals, "gcs", 15)
        spo2 == Get(vitals, "spo2", 98)
        rr   == Get(vitals, "respiratory_rate", 16)
        met  == << gcs < 9, ~(gcs < 9) /\ gcs < 13, spo2 < 88, ~(spo2 < 88) /\ spo2 < 92,
                   rr < 8 \/ rr > 30, Get(symptoms, "airway_obstruction", FALSE) >>
        score == SumSeq(Kept(<<3, 1, 2, 1, 2, 3>>, met))
    IN  [score          |-> score,
         interpretation |-> IF score >= 4 THEN "High Risk - Intubate"
                            ELSE IF score >= 2 THEN "Moderate Risk - Prepare" ELSE "Low Risk",
         risk_factors   |-> Kept(<<"Severely Altered Mental Status (GCS <9)",
                                   "Altered Mental Status (GCS <13)",
                                   "Severe Hypoxia (SpO2 <88%)", "Hypoxia (SpO2 <92%)",
                                   "Abnormal Respiratory Rate", "Airway Obstruction Present">>, met),
         recommendation |-> IF score >= 4 THEN "Prepare for Emergency Intubation"
                            ELSE "Monitor Airway Closely"]

ZeroDivisionError == [raised |-> "ZeroDivisionError"]

\* calculate_shock_index without the substitution of 1 for a zero systolic BP.
calculate_shock_index_unguarded(vitals) ==
    LET hr  == Get(vitals, "heart_rate", 70)
        sbp == Get(vitals, "blood_pressure_systolic", 120)
    IN  IF sbp = 0 THEN ZeroDivisionError
        ELSE [value          |-> Round2(hr, sbp),
              interpretation |-> IF RatGT(hr, sbp, 1, 1) THEN "Shock State"
                                 ELSE IF RatGT(hr, sbp, 9, 10) THEN "Pre-Shock / Compensated"
                                 ELSE "Normal",
              normal_range   |-> "0.5-0.7",
              recommendation |-> IF RatGT(hr, sbp, 1, 1) THEN "Immediate Resuscitation"
                                 ELSE "Monitor"]

\* calculate_shock_index(vitals); value is in hundredths.
calculate_shock_index(vitals) ==
    LET hr   == Get(vitals, "heart_rate", 70)
        sbp0 == Get(vitals, "blood_pressure_systolic", 120)
        sbp  == IF sbp0 = 0 THEN 1 ELSE sbp0
    IN  [value          |-> Round2(hr, sbp),
         interpretation |-> IF RatGT(hr, sbp, 1, 1) THEN "Shock State"
                            ELSE IF RatGT(hr, sbp, 9, 10) THEN "Pre-Shock / Compensated"
                            ELSE "Normal",
         normal_range   |-> "0.5-0.7",
         recommendation |-> IF RatGT(hr, sbp, 1, 1) THEN "Immediate Resuscitation" ELSE "Monitor"]

\* vitals_history[:3], the three oldest entries.
FirstThree(h) == SubSeq(h, 1, 3)

\* vitals_history[-3:] of a history of at least 3 entries
LastThree(h) == SubSeq(h, Len(h) - 2, Len(h))

\* calculate_deterioration_index(vitals_history); v['heart_rate'] and the like
\* raise KeyError on an entry that lacks the key.
calculate_deterioration_index(vitals_history) ==
    IF Len(vitals_history) < 3
    THEN [score |-> 0, interpretation |-> "Insufficient Data", trend |-> "Unknown"]
    ELSE
    LET recent == LastThree(vitals_history)
    IN  IF \E i \in 1..3 : {"heart_rate", "spo2", "blood_pressure_systolic"} \ DOMAIN recent[i] # {}
        THEN KeyError
        ELSE
        LET met == << recent[3]["heart_rate"] > recent[1]["heart_rate"] + 10,
                      recent[3]["spo2"] < recent[1]["spo2"] - 3,
                      recent[3]["blood_pressure_systolic"] < recent[1]["blood_pressure_systolic"] - 15 >>
            deterioration_score == SumSeq(Kept(<<1, 2, 2>>, met))
        IN  [score          |-> deterioration_score,
             interpretation |-> IF deterioration_score >= 3 THEN "Rapidly Deteriorating"
                                ELSE IF deterioration_score >= 2 THEN "Deteriorating"
                                ELSE IF deterioration_score = 0 THEN "Stable"
                                ELSE "Concerning Trend",
             trends         |-> Kept(<<"Increasing HR", "Decreasing SpO2", "Decreasing BP">>, met),
             recommendation |-> IF deterioration_score >= 3 THEN "Escalate Care Immediately"
                                ELSE "Monitor Closely"]

(***************************************************************************)
(* ai_triage.py: AITriagePredictor                                         *)
(***************************************************************************)

\* bool(symptoms.get(key)): an absent key gives None, which is false.
Truthy(d, k) == Get(d, k, FALSE)

\* scores.get(name, {}).get(key, default)
ScoreGet(scores, name, key, default) == Get(Get(scores, name, EmptyDict), key, default)

\* The rules of predict_severity in evaluation order: whether each triggers.
severity_rules(vitals, symptoms, scores) ==
    LET hr   == Get(vitals, "heart_rate", 70)
        spo2 == Get(vitals, "spo2", 98)
        sbp  == Get(vitals, "blood_pressure_systolic", 120)
        gcs  == Get(vitals, "gcs", 15)
    IN  << hr > 120 \/ hr < 50,
           spo2 < 90,
           ~(spo2 < 90) /\ spo2 < 94,
           sbp < 90,
           gcs < 9,
           ~(gcs < 9) /\ gcs < 13,
           Truthy(symptoms, "chest_pain"),
           Truthy(symptoms, "st_elevation"),
           ScoreGet(scores, "shock_index", "value", 70) > 100 >>

\* The weights with those of the two SpO2 rules exchanged.
severity_weights_spo2_swapped == <<15, 10, 20, 20, 25, 15, 10, 15, 15>>

severity_weights == <<15, 20, 10, 20, 25, 15, 10, 15, 15>>

severity_factors ==
    <<"Abnormal Heart Rate", "Critical Hypoxia", "Moderate Hypoxia", "Hypotension/Shock",
      "Severely Altered Mental Status", "Altered Mental Status", "Chest Pain", "ST Elevation",
      "Shock State">>

Min(a, b) == IF a <= b THEN a ELSE b
Max(a, b) == IF a >= b THEN a ELSE b

\* The score left uncapped.
severity_cap_missing(total) == total

\* min(severity_score, 100)
severity_cap(total) == Min(total, 100)

\* The level and priority of a severity score.
severity_level(score) ==
    IF score >= 75 THEN "CRITICAL"
    ELSE IF score >= 50 THEN "EMERGENT"
    ELSE IF score >= 25 THEN "URGENT"
    ELSE "NON-EMERGENT"

severity_priority(score) ==
    IF score >= 75 THEN "Resuscitation"
    ELSE IF score >= 50 THEN "Immediate"
    ELSE IF score >= 25 THEN "Within 30 min"
    ELSE "Standard"

\* predict_severity(vitals, symptoms, scores)
predict_severity(vitals, symptoms, scores) ==
    LET met   == severity_rules(vitals, symptoms, scores)
        score == severity_cap(SumSeq(Kept(severity_weights, met)))
    IN  [score                |-> score,
         level                |-> severity_level(score),
         priority             |-> severity_priority(score),
         contributing_factors |-> Kept(severity_factors, met)]

\* predict_active_alerts with the stroke alert raised from NIHSS 7
predict_active_alerts_nihss_from_7(vitals, symptoms, scores) ==
    LET gcs  == Get(vitals, "gcs", 15)
        sbp  == Get(vitals, "blood_pressure_systolic", 120)
        spo2 == Get(vitals, "spo2", 98)
    IN  Kept(<<"STEMI", "STROKE", "TRAUMA", "SEPSIS", "CARDIAC_ARREST_RISK">>,
             << ScoreGet(scores, "stemi_checklist", "score", 0) >= 3,
                ScoreGet(scores, "nihss", "score", 0) >= 7,
                ScoreGet(scores, "trauma_score", "score", 700) < 500,
                ScoreGet(scores, "qsofa", "score", 0) >= 2,
                gcs < 5 /\ (sbp < 70 \/ spo2 < 80) >>)

\* predict_active_alerts(vitals, symptoms, scores); the trauma score is read
\* in hundredths (default 7).
predict_active_alerts(vitals, symptoms, scores) ==
    LET gcs  == Get(vitals, "gcs", 15)
        sbp  == Get(vitals, "blood_pressure_systolic", 120)
        spo2 == Get(vitals, "spo2", 98)
    IN  Kept(<<"STEMI", "STROKE", "TRAUMA", "SEPSIS", "CARDIAC_ARREST_RISK">>,
             << ScoreGet(scores, "stemi_checklist", "score", 0) >= 3,
                ScoreGet(scores, "nihss", "score", 0) > 7,
                ScoreGet(scores, "trauma_score", "score", 700) < 500,
                ScoreGet(scores, "qsofa", "score", 0) >= 2,
                gcs < 5 /\ (sbp < 70 \/ spo2 < 80) >>)

\* The keys of predictions / of confidence_scores, in the order the rules of
\* predict_interventions are evaluated, and each rule's confidence (hundredths).
prediction_keys ==
    <<"cardiac_arrest_imminent", "needs_intubation", "needs_icu", "needs_or",
      "likely_stroke", "likely_stemi", "likely_sepsis">>
confidence_keys == <<"cardiac_arrest", "intubation", "icu", "or", "stroke", "stemi", "sepsis">>
confidence_values == <<85, 90, 80, 75, 85, 90, 75>>

\* The rules of predict_interventions with cardiac arrest predicted below a
\* systolic pressure of 80
intervention_rules_arrest_below_80(vitals, symptoms, scores) ==
    LET gcs == Get(vitals, "gcs", 15)
        sbp == Get(vitals, "blood_pressure_systolic", 120)
    IN  << gcs < 5 /\ sbp < 80,
           ScoreGet(scores, "airway_risk", "score", 0) >= 4 \/ gcs < 9,
           ScoreGet(scores, "severity", "score", 0) >= 60,
           ScoreGet(scores, "trauma_score", "score", 700) < 400,
           ScoreGet(scores, "nihss", "score", 0) > 7,
           ScoreGet(scores, "stemi_checklist", "score", 0) >= 3,
           ScoreGet(scores, "qsofa", "score", 0) >= 2 >>

\* The rules of predict_interventions with the ICU rule read as severity > 60
intervention_rules_icu_above_60(vitals, symptoms, scores) ==
    LET gcs == Get(vitals, "gcs", 15)
        sbp == Get(vitals, "blood_pressure_systolic", 120)
    IN  << gcs < 5 /\ sbp < 60,
           ScoreGet(scores, "airway_risk", "score", 0) >= 4 \/ gcs < 9,
           ScoreGet(scores, "severity", "score", 0) > 60,
           ScoreGet(scores, "trauma_score", "score", 700) < 400,
           ScoreGet(scores, "nihss", "score", 0) > 7,
           ScoreGet(scores, "stemi_checklist", "score", 0) >= 3,
           ScoreGet(scores, "qsofa", "score", 0) >= 2 >>

intervention_rules(vitals, symptoms, scores) ==
    LET gcs == Get(vitals, "gcs", 15)
        sbp == Get(vitals, "blood_pressure_systolic", 120)
    IN  << gcs < 5 /\ sbp < 60,
           ScoreGet(scores, "airway_risk", "score", 0) >= 4 \/ gcs < 9,
           ScoreGet(scores, "severity", "score", 0) >= 60,
           ScoreGet(scores, "trauma_score", "score", 700) < 400,
           ScoreGet(scores, "nihss", "score", 0) > 7,
           ScoreGet(scores, "stemi_checklist", "score", 0) >= 3,
           ScoreGet(scores, "qsofa", "score", 0) >= 2 >>

\* predict_interventions(vitals, symptoms, scores)
predict_interventions(vitals, symptoms, scores) ==
    LET met == intervention_rules(vitals, symptoms, scores)
    IN  [predictions       |-> [k \in {prediction_keys[i] : i \in 1..7} |->
                                   met[CHOOSE i \in 1..7 : prediction_keys[i] = k]],
         confidence_scores |-> [k \in {confidence_keys[i] : i \in {j \in 1..7 : met[j]}} |->
                                   confidence_values[CHOOSE i \in 1..7 : confidence_keys[i] = k]]]

\* The action lists of activate_protocols (the leading pictographs left out).
protocol_actions ==
    [STEMI_PROTOCOL  |-> <<"ACTIVATE CATHETER LAB - Door-to-balloon <90 min",
                           "Page Interventional Cardiology",
                           "Prepare: Aspirin, Clopidogrel, Heparin, Nitroglycerin",
                           "STAT Labs: Troponin, CBC, BMP, Coag panel",
                           "Designate Cath Lab bed">>,
     STROKE_PROTOCOL |-> <<"ACTIVATE STROKE TEAM", "Reserve CT Scanner immediately",
                           "Page Neurology", "Document Last Known Well time",
                           "Prepare tPA if within window", "STAT Labs: CBC, Coag, Glucose">>,
     TRAUMA_PROTOCOL |-> <<"ACTIVATE TRAUMA TEAM", "Prepare Trauma Bay",
                           "Page Surgery, Anesthesia", "Type & Cross, MTP if needed",
                           "CT scanner on standby", "Notify OR">>,
     SEPSIS_PROTOCOL |-> <<"INITIATE SEPSIS BUNDLE", "Blood cultures BEFORE antibiotics",
                           "Broad-spectrum antibiotics within 1 hour",
                           "Aggressive fluid resuscitation 30ml/kg", "STAT Lactate",
                           "Consider ICU">>,
     AIRWAY_PREP     |-> <<"PREPARE FOR INTUBATION", "Page Anesthesia", "RSI medications ready",
                           "Ventilator on standby", "Difficult airway cart available">>,
     CODE_BLUE_PREP  |-> <<"CODE BLUE PREPARATION", "Crash cart at bedside",
                           "Emergency medications ready", "Rapid response team notified",
                           "Defibrillator ready">>]

\* The conditions of activate_protocols with the trauma protocol also started by
\* predictions['needs_or']
protocol_rules_trauma_by_or(active_alerts, predictions) ==
    [STEMI_PROTOCOL  |-> InList("STEMI", active_alerts) \/ Truthy(predictions, "likely_stemi"),
     STROKE_PROTOCOL |-> InList("STROKE", active_alerts) \/ Truthy(predictions, "likely_stroke"),
     TRAUMA_PROTOCOL |-> InList("TRAUMA", active_alerts) \/ Truthy(predictions, "needs_or"),
     SEPSIS_PROTOCOL |-> InList("SEPSIS", active_alerts) \/ Truthy(predictions, "likely_sepsis"),
     AIRWAY_PREP     |-> Truthy(predictions, "needs_intubation"),
     CODE_BLUE_PREP  |-> InList("CARDIAC_ARREST_RISK", active_alerts)]

\* The condition of each if statement of activate_protocols.
protocol_rules(active_alerts, predictions) ==
    [STEMI_PROTOCOL  |-> InList("STEMI", active_alerts) \/ Truthy(predictions, "likely_stemi"),
     STROKE_PROTOCOL |-> InList("STROKE", active_alerts) \/ Truthy(predictions, "likely_stroke"),
     TRAUMA_PROTOCOL |-> InList("TRAUMA", active_alerts),
     SEPSIS_PROTOCOL |-> InList("SEPSIS", active_alerts) \/ Truthy(predictions, "likely_sepsis"),
     AIRWAY_PREP     |-> Truthy(predictions, "needs_intubation"),
     CODE_BLUE_PREP  |-> InList("CARDIAC_ARREST_RISK", active_alerts)]

\* activate_protocols(active_alerts, predictions): the activations dict.
activate_protocols(active_alerts, predictions) ==
    LET rules == protocol_rules(active_alerts, predictions)
    IN  Restrict(protocol_actions, {p \in DOMAIN protocol_actions : rules[p]})

(***************************************************************************)
(* utils/aparavi_redactor.py: AparaviRedactor                              *)
(*                                                                         *)
(* A text is a string; positions are counted from 0 as in Python, a span   *)
(* being [start, end).  Each regular expression of pii_patterns is an      *)
(* operator giving, for a start position, the end of the match the regex   *)
(* engine finds there (leftmost alternative first, greedy quantifiers      *)
(* backing off), or NoMatch.                                               *)
(***************************************************************************)

NoMatch == -1

Digits == {"0", "1", "2", "3", "4", "5", "6", "7", "8", "9"}
Upper  == {"A", "B", "C", "D", "E", "F", "G", "H", "I", "J", "K", "L", "M",
           "N", "O", "P", "Q", "R", "S", "T", "U", "V", "W", "X", "Y", "Z"}
Lower  == {"a", "b", "c", "d", "e", "f", "g", "h", "i", "j", "k", "l", "m",
           "n", "o", "p", "q", "r", "s", "t", "u", "v", "w", "x", "y", "z"}
\* \w, \s
WordChars  == Digits \cup Upper \cup Lower \cup {"_"}
SpaceChars == {" ", "\t", "\n"}
\* [A-Za-z0-9._%+-], [A-Za-z0-9.-], [A-Z|a-z]
EmailLocalChars  == Digits \cup Upper \cup Lower \cup {".", "_", "%", "+", "-"}
EmailDomainChars == Digits \cup Upper \cup Lower \cup {".", "-"}
EmailTldChars    == Upper \cup Lower \cup {"|"}

\* text[i] for 0 <= i < len(text); "" outside the text.
At(t, i) == IF 0 <= i /\ i < Len(t) THEN SubSeq(t, i + 1, i + 1) ELSE ""

\* text[:n] and text[n:] for n >= 0, n clamped to the length as slices are.
Prefix(t, n) == SubSeq(t, 1, Min(n, Len(t)))
Suffix(t, n) == IF n >= Len(t) THEN "" ELSE SubSeq(t, n + 1, Len(t))

\* text[i:].startswith(w)
StartsWithAt(t, i, w) == i + Len(w) <= Len(t) /\ SubSeq(t, i + 1, i + Len(w)) = w

\* w in text
Contains(t, w) == \E i \in 0..(Len(t) - Len(w)) : StartsWithAt(t, i, w)

\* \b at position i: exactly one of text[i-1], text[i] is a word character.
WordBoundary(t, i) == (At(t, i - 1) \in WordChars) # (At(t, i) \in WordChars)

\* Whether text[i:i+n] are n characters of cls.
AllIn(t, i, n, cls) == \A j \in i..(i + n - 1) : At(t, j) \in cls

RECURSIVE RunLen(_, _, _)
\* The length of the longest run of characters of cls starting at i.
RunLen(t, i, cls) == IF At(t, i) \in cls THEN 1 + RunLen(t, i + 1, cls) ELSE 0

\* The greatest element of a non-empty set of integers, NoMatch for the empty set.
Greatest(S) == IF S = {} THEN NoMatch ELSE CHOOSE x \in S : \A y \in S : y <= x

\* \b\d{3}-\d{3}-\d{4}\b: the SSN pattern with a middle group of three digits.
SsnAt_three_digit_group(t, i) ==
    IF /\ WordBoundary(t, i)
       /\ AllIn(t, i, 3, Digits) /\ At(t, i + 3) = "-"
       /\ AllIn(t, i + 4, 3, Digits) /\ At(t, i + 7) = "-"
       /\ AllIn(t, i + 8, 4, Digits)
       /\ WordBoundary(t, i + 12)
    THEN i + 12 ELSE NoMatch

\* \b\d{3}-\d{2}-\d{4}\b
SsnAt(t, i) ==
    IF /\ WordBoundary(t, i)
       /\ AllIn(t, i, 3, Digits) /\ At(t, i + 3) = "-"
       /\ AllIn(t, i + 4, 2, Digits) /\ At(t, i + 6) = "-"
       /\ AllIn(t, i + 7, 4, Digits)
       /\ WordBoundary(t, i + 11)
    THEN i + 11 ELSE NoMatch

\* \b\d{3}[-.]?\d{3}[-.]?\d{4}\b: an optional separator is taken when it is
\* there (without it the next \d would have to match the separator).
PhoneAt(t, i) ==
    LET a == i + 3 + (IF At(t, i + 3) \in {"-", "."} THEN 1 ELSE 0)
        b == a + 3 + (IF At(t, a + 3) \in {"-", "."} THEN 1 ELSE 0)
    IN  IF /\ WordBoundary(t, i)
           /\ AllIn(t, i, 3, Digits) /\ AllIn(t, a, 3, Digits) /\ AllIn(t, b, 4, Digits)
           /\ WordBoundary(t, b + 4)
        THEN b + 4 ELSE NoMatch

\* \b[A-Za-z0-9._%+-]+@[A-Za-z0-9.-]+\.[A-Z|a-z]{2,}\b: the local part is the
\* whole run before the @; the domain backs off from its longest run to the
\* last dot that is followed by two or more letters ending at a \b, the
\* letters backing off likewise.
EmailAt(t, i) ==
    LET l  == RunLen(t, i, EmailLocalChars)
        ds == i + l + 1
        d  == RunLen(t, ds, EmailDomainChars)
        \* the ends reachable with the dot at position p
        endsAt(p) == {e \in (p + 3)..(p + 1 + RunLen(t, p + 1, EmailTldChars)) : WordBoundary(t, e)}
        dots == {p \in (ds + 1)..(ds + d) : At(t, p) = "." /\ endsAt(p) # {}}
    IN  IF WordBoundary(t, i) /\ l >= 1 /\ At(t, i + l) = "@" /\ dots # {}
        THEN Greatest(endsAt(Greatest(dots))) ELSE NoMatch

\* \b[A-Z][a-z]+ [A-Z][a-z]+\b
NameAt(t, i) ==
    LET l1 == RunLen(t, i + 1, Lower)
        j  == i + 1 + l1
        l2 == RunLen(t, j + 2, Lower)
        ends == {e \in (j + 3)..(j + 2 + l2) : WordBoundary(t, e)}
    IN  IF /\ WordBoundary(t, i) /\ At(t, i) \in Upper /\ l1 >= 1
           /\ At(t, j) = " " /\ At(t, j + 1) \in Upper /\ ends # {}
        THEN Greatest(ends) ELSE NoMatch

\* (Street|St|Avenue|Ave|Road|Rd|Boulevard|Blvd|Lane|Ln|Drive|Dr)
StreetWords ==
    <<"Street", "St", "Avenue", "Ave", "Road", "Rd", "Boulevard", "Blvd", "Lane", "Ln",
      "Drive", "Dr">>

\* \b\d{1,5}\s\w+\s(Street|...|Dr)\b: \d{1,5} and \w+ can only stop where a \s
\* follows, which is at the end of their runs; the first alternative that is
\* followed by a \b is taken.
AddressAt(t, i) ==
    LET d  == RunLen(t, i, Digits)
        w  == RunLen(t, i + d + 1, WordChars)
        k  == i + d + 1 + w + 1
        ok == {n \in 1..Len(StreetWords) :
                  StartsWithAt(t, k, StreetWords[n]) /\ WordBoundary(t, k + Len(StreetWords[n]))}
    IN  IF /\ WordBoundary(t, i) /\ 1 <= d /\ d <= 5
           /\ At(t, i + d) \in SpaceChars /\ w >= 1 /\ At(t, k - 1) \in SpaceChars
           /\ ok # {}
        THEN k + Len(StreetWords[CHOOSE n \in ok : \A m \in ok : n <= m]) ELSE NoMatch

\* pii_patterns, in the order the dict lists them.
PiiTypes == <<"SSN", "PHONE", "EMAIL", "NAME", "ADDRESS">>

\* The end of the match of pii_patterns[pii_type] starting at i, or NoMatch.
MatchAt(pii_type, t, i) ==
    CASE pii_type = "SSN"     -> SsnAt(t, i)
      [] pii_type = "PHONE"   -> PhoneAt(t, i)
      [] pii_type = "EMAIL"   -> EmailAt(t, i)
      [] pii_type = "NAME"    -> NameAt(t, i)
      [] pii_type = "ADDRESS" -> AddressAt(t, i)

\* One detected entity; confidence is in hundredths.
Entity(pii_type, t, start, end) ==
    [type |-> pii_type, text |-> SubSeq(t, start + 1, end), start |-> start, end |-> end,
     confidence |-> 95]

\* The least element of a non-empty set of integers.
Least(S) == CHOOSE x \in S : \A y \in S : x <= y

RECURSIVE finditer(_, _, _)
\* re.finditer(pattern, text) from position pos on: the leftmost match, then the
\* matches after its end.
finditer(pii_type, t, pos) ==
    LET starts == {p \in pos..(Len(t) - 1) : MatchAt(pii_type, t, p) # NoMatch}
    IN  IF starts = {} THEN <<>>
        ELSE LET start == Least(starts)
                 end   == MatchAt(pii_type, t, start)
             IN  <<Entity(pii_type, t, start, end)>> \o finditer(pii_type, t, end)

RECURSIVE DetectFrom(_, _)
DetectFrom(n, t) ==
    IF n > Len(PiiTypes) THEN <<>> ELSE finditer(PiiTypes[n], t, 0) \o DetectFrom(n + 1, t)

\* _detect_pii_locally(text)
detect_pii_locally(t) == DetectFrom(1, t)

RECURSIVE InsertByStart(_, _)
\* e put behind the entities of the descending list es that start at or after it.
InsertByStart(e, es) ==
    IF es = <<>> THEN <<e>>
    ELSE IF Head(es).start >= e.start THEN <<Head(es)>> \o InsertByStart(e, Tail(es))
    ELSE <<e>> \o es

RECURSIVE SortByStartDesc(_)
\* detected_pii.sort(key=lambda x: x['start'], reverse=True): descending starts,
\* entities of equal start keeping their order (the sort is stable).
SortByStartDesc(es) ==
    IF es = <<>> THEN <<>>
    ELSE InsertByStart(es[Len(es)], SortByStartDesc(SubSeq(es, 1, Len(es) - 1)))

\* _get_replacement with a NAME placeholder that is itself two capitalized words.
get_replacement_two_words(pii_type) ==
    CASE pii_type = "SSN"     -> "[SSN-REDACTED]"
      [] pii_type = "PHONE"   -> "[PHONE]"
      [] pii_type = "EMAIL"   -> "[EMAIL]"
      [] pii_type = "NAME"    -> "[Patient Name]"
      [] pii_type = "ADDRESS" -> "[LOCATION]"
      [] OTHER                -> "[REDACTED]"

\* _get_replacement(pii_type)
get_replacement(pii_type) ==
    CASE pii_type = "SSN"     -> "[SSN-REDACTED]"
      [] pii_type = "PHONE"   -> "[PHONE]"
      [] pii_type = "EMAIL"   -> "[EMAIL]"
      [] pii_type = "NAME"    -> "[PATIENT]"
      [] pii_type = "ADDRESS" -> "[LOCATION]"
      [] OTHER                -> "[REDACTED]"

\* redacted_text[:start] + replacement + redacted_text[end:]
ReplaceSpan(t, entity) ==
    Prefix(t, entity.start) \o get_replacement(entity.type) \o Suffix(t, entity.end)

RECURSIVE ApplyAll(_, _)
ApplyAll(t, es) == IF es = <<>> THEN t ELSE ApplyAll(ReplaceSpan(t, Head(es)), Tail(es))

\* redact_text(text)
redact_text(t) ==
    IF t = "" THEN t ELSE ApplyAll(t, SortByStartDesc(detect_pii_locally(t)))

\* is_hipaa_compliant(text)
is_hipaa_compliant(t) ==
    LET detected == detect_pii_locally(t)
    IN  ~\E n \in 1..Len(detected) :
            detected[n].type \in {"SSN", "PHONE", "EMAIL"} /\ detected[n].confidence > 70

\* An argument of redact_text: Python's None, or a str.
None   == [is_none |-> TRUE, str |-> ""]
Str(t) == [is_none |-> FALSE, str |-> t]

\* A test that lets only None through, the empty string going on to detection
not_text_none_only(text) == text.is_none

\* "if not text": None and the empty string are false.
not_text(text) == text.is_none \/ text.str = ""

\* AparaviRedactor.redact_text(text) for an argument that may be None: what it
\* returns, and whether it went on to call _detect_pii_locally.
aparavi_redact_text(text) ==
    IF not_text(text) THEN [returned |-> text, detection_called |-> FALSE]
    ELSE [returned |-> Str(redact_text(text.str)), detection_called |-> TRUE]

\* PIIRedactor.redact_text(text) (utils/pii_redactor.py); anonymized is what the
\* Presidio analyzer and anonymizer make of the text.
presidio_redact_text(text, anonymized) ==
    IF not_text(text) THEN [returned |-> text, detection_called |-> FALSE]
    ELSE [returned |-> Str(anonymized), detection_called |-> TRUE]

\* Before any text has been redacted.
NoRedaction ==
    [step |-> "none", text |-> "", detected |-> <<>>, redacted |-> "", compliant |-> FALSE]

(***************************************************************************)
(* dashboard/advanced_clinical_dashboard.py, with the vitals of            *)
(* simulators/telemetry_simulator.py.                                      *)
(*                                                                         *)
(* Of a patient the model keeps what decides arrivals and the resources    *)
(* an arrival consumes: status, elapsed_time, initial_eta, the chief       *)
(* complaint and condition, active_alerts, predictions and whether a       *)
(* handoff summary was written.  telemetry_history holds each reading by   *)
(* its number and the names of its fields; clinical_scores, severity and   *)
(* activated_protocols are recomputed on every run and only displayed.     *)
(***************************************************************************)

\* f"{n:03d}"
RECURSIVE Decimal(_)
Decimal(n) ==
    (IF n >= 10 THEN Decimal(n \div 10) ELSE "") \o SubSeq("0123456789", (n % 10) + 1, (n % 10) + 1)
Format03d(n) == SubSeq("00", 1, Max(0, 3 - Len(Decimal(n)))) \o Decimal(n)

\* initialize_session_state: hospital_resources
InitialResources ==
    [icu_beds          |-> [total |-> 12, available |-> 8],
     ct_scanner        |-> [total |-> 2, available |-> 1],
     mri_scanner       |-> [total |-> 1, available |-> 1],
     or_rooms          |-> [total |-> 6, available |-> 4],
     blood_units_o_neg |-> [available |-> 25],
     blood_units_o_pos |-> [available |-> 30],
     ventilators       |-> [total |-> 15, available |-> 10]]

\* The record of a patient who has just been entered.  resource_updates counts
\* the calls of update_hospital_resources(patient_data) made for the patient.
NewPatient(pid, amb_id, complaint, condition, initial_eta) ==
    [patient_id |-> pid, ambulance_id |-> amb_id, chief_complaint |-> complaint,
     condition |-> condition, telemetry_history |-> <<>>, predictions |-> EmptyDict,
     active_alerts |-> <<>>, initial_eta |-> initial_eta, elapsed_time |-> 0,
     status |-> "EN_ROUTE", handoff_summary |-> FALSE, resource_updates |-> 0]

\* initialize_session_state: patients_data
patients_data ==
    <<NewPatient("P-2024-001", "AMB-001", "Chest Pain", "critical", 8),
      NewPatient("P-2024-002", "AMB-002", "Stroke Symptoms", "critical", 10),
      NewPatient("P-2024-003", "AMB-003", "Trauma - MVA", "deteriorating", 6)>>

InitialPatients ==
    [pid \in {patients_data[i].patient_id : i \in 1..Len(patients_data)} |->
        patients_data[CHOOSE i \in 1..Len(patients_data) : patients_data[i].patient_id = pid]]

\* initialize_session_state: next_patient_num and next_amb_num
InitialNextNum == 4

\* add_new_ambulance: scenarios, as <<complaint, condition>>
scenarios ==
    {<<"Chest Pain - Possible MI", "critical">>, <<"Stroke Symptoms", "critical">>,
     <<"Trauma - MVA", "deteriorating">>, <<"Sepsis Suspected", "critical">>,
     <<"Respiratory Distress", "deteriorating">>}

\* TelemetrySimulator.generate_vitals: the ranges of random.randint for a
\* condition, as <<low, high>>.
VitalsRange(condition) ==
    IF condition = "critical"
    THEN [heart_rate |-> <<95, 135>>, spo2 |-> <<88, 94>>, blood_pressure_systolic |-> <<85, 110>>,
          blood_pressure_diastolic |-> <<50, 70>>]
    ELSE IF condition = "deteriorating"
    THEN [heart_rate |-> <<110, 145>>, spo2 |-> <<85, 91>>, blood_pressure_systolic |-> <<75, 95>>,
          blood_pressure_diastolic |-> <<45, 60>>]
    ELSE [heart_rate |-> <<60, 90>>, spo2 |-> <<95, 99>>, blood_pressure_systolic |-> <<110, 130>>,
          blood_pressure_diastolic |-> <<70, 85>>]

\* The ends and the middle of a range.
EndsAndMiddle(r) == {r[1], (r[1] + r[2]) \div 2, r[2]}

\* The readings generate_vitals is taken to return: every spo2 of the range,
\* the ends and the middle of the other ranges.
generate_vitals(condition) ==
    LET r == VitalsRange(condition)
    IN  [heart_rate               : EndsAndMiddle(r.heart_rate),
         spo2                     : r.spo2[1]..r.spo2[2],
         blood_pressure_systolic  : EndsAndMiddle(r.blood_pressure_systolic),
         blood_pressure_diastolic : {r.blood_pressure_diastolic[1]}]

\* calculate_clinical_scores: symptoms
dashboard_symptoms(complaint) ==
    [chest_pain         |-> complaint = "Chest Pain",
     st_elevation       |-> complaint = "Chest Pain",
     diaphoresis        |-> TRUE,
     nausea             |-> TRUE,
     stroke_suspected   |-> Contains(complaint, "Stroke"),
     airway_obstruction |-> FALSE]

\* calculate_clinical_scores: latest_vitals, the reading with the GCS and the
\* respiratory rate set for scoring (the temperature, which no score reads,
\* left out).
scored_vitals(reading) ==
    [k \in DOMAIN reading \cup {"gcs", "respiratory_rate"} |->
        IF k = "gcs" THEN 13 ELSE IF k = "respiratory_rate" THEN 24 ELSE reading[k]]

\* calculate_clinical_scores: scores, for the NIHSS drawn.  The deterioration
\* index, which none of predict_severity, predict_active_alerts and
\* predict_interventions reads, is left out.
dashboard_scores(complaint, reading, nihss) ==
    LET latest_vitals == scored_vitals(reading)
        symptoms == dashboard_symptoms(complaint)
    IN  [trauma_score    |-> calculate_trauma_score(latest_vitals),
         qsofa           |-> calculate_qsofa(latest_vitals),
         stemi_checklist |-> calculate_stemi_checklist(symptoms),
         shock_index     |-> calculate_shock_index(latest_vitals),
         airway_risk     |-> calculate_airway_risk(latest_vitals, symptoms),
         nihss           |-> calculate_nihss(symptoms, nihss)]

\* calculate_clinical_scores for the latest reading and the NIHSS drawn: what
\* it stores as active_alerts and predictions.
calculate_clinical_scores(complaint, reading, nihss) ==
    LET latest_vitals == scored_vitals(reading)
        symptoms == dashboard_symptoms(complaint)
        scores == dashboard_scores(complaint, reading, nihss)
    IN  [active_alerts |-> predict_active_alerts(latest_vitals, symptoms, scores),
         predictions   |-> predict_interventions(latest_vitals, symptoms, scores)]

\* calculate_clinical_scores: everything it stores in patient_data but the
\* scores themselves.
stored_by_clinical_scores(complaint, reading, nihss) ==
    LET latest_vitals == scored_vitals(reading)
        symptoms == dashboard_symptoms(complaint)
        scores == dashboard_scores(complaint, reading, nihss)
        stored == calculate_clinical_scores(complaint, reading, nihss)
    IN  [severity            |-> predict_severity(latest_vitals, symptoms, scores),
         active_alerts       |-> stored.active_alerts,
         predictions         |-> stored.predictions,
         activated_protocols |-> activate_protocols(stored.active_alerts,
                                                    stored.predictions.predictions)]

\* The complaints and conditions a patient of the dashboard can have.
Presentations ==
    {<<patients_data[i].chief_complaint, patients_data[i].condition>> : i \in 1..Len(patients_data)}
        \cup scenarios

\* What calculate_clinical_scores can store for a patient, over the readings
\* and the NIHSS draws.
ScoreOutcomes ==
    [pc \in Presentations |->
        {calculate_clinical_scores(pc[1], reading, nihss) :
            reading \in generate_vitals(pc[2]), nihss \in NihssDraws(dashboard_symptoms(pc[1]))}]

\* telemetry_history is cut to its last 20 readings.
HistoryLimit == 20

\* The keys of the dict generate_vitals returns.
vitals_fields ==
    {"timestamp", "ambulance_id", "patient_id", "heart_rate", "spo2", "blood_pressure_systolic",
     "blood_pressure_diastolic", "blood_pressure", "condition"}

\* The n-th reading generate_vitals returned for a patient, as a history holds
\* it: by its number and the names of its fields, without their values.
StoredReading(n) == [n |-> n, fields |-> vitals_fields]

\* history[:20]
keep_first(history) ==
    IF Len(history) > HistoryLimit THEN SubSeq(history, 1, HistoryLimit) ELSE history

\* if len(history) > 20: history = history[-20:]
keep_last(history) ==
    IF Len(history) > HistoryLimit
    THEN SubSeq(history, Len(history) - HistoryLimit + 1, Len(history))
    ELSE history

\* The keys calculate_clinical_scores sets in telemetry_history[-1].
scored_fields == {"gcs", "respiratory_rate", "temperature"}

\* calculate_clinical_scores: latest_vitals is the last dict of the history
\* itself, so the keys set in it are set in the history.
score_latest(history) ==
    [history EXCEPT ![Len(history)].fields = @ \cup scored_fields]

\* update_hospital_resources without the tests that a counter is above 0.
update_hospital_resources_unguarded(resources, patient_data) ==
    LET predictions   == Get(Get(patient_data, "predictions", EmptyDict), "predictions", EmptyDict)
        active_alerts == Get(patient_data, "active_alerts", <<>>)
    IN  [resources EXCEPT
            !.icu_beds.available    = IF Get(predictions, "needs_icu", FALSE) THEN @ - 1 ELSE @,
            !.ventilators.available = IF Get(predictions, "needs_intubation", FALSE) THEN @ - 1 ELSE @,
            !.or_rooms.available    = IF Get(predictions, "needs_or", FALSE) THEN @ - 1 ELSE @,
            !.ct_scanner.available  =
                IF InList("STROKE", active_alerts) \/ InList("TRAUMA", active_alerts)
                THEN @ - 1 ELSE @,
            !.blood_units_o_neg.available = IF InList("TRAUMA", active_alerts) THEN @ - 2 ELSE @]

\* update_hospital_resources giving a CT scanner back when the patient needs none.
update_hospital_resources_releasing_ct(resources, patient_data) ==
    LET predictions   == Get(Get(patient_data, "predictions", EmptyDict), "predictions", EmptyDict)
        active_alerts == Get(patient_data, "active_alerts", <<>>)
        needs_ct      == InList("STROKE", active_alerts) \/ InList("TRAUMA", active_alerts)
    IN  [resources EXCEPT
            !.icu_beds.available    =
                IF Get(predictions, "needs_icu", FALSE) /\ @ > 0 THEN @ - 1 ELSE @,
            !.ventilators.available =
                IF Get(predictions, "needs_intubation", FALSE) /\ @ > 0 THEN @ - 1 ELSE @,
            !.or_rooms.available    =
                IF Get(predictions, "needs_or", FALSE) /\ @ > 0 THEN @ - 1 ELSE @,
            !.ct_scanner.available  =
                IF needs_ct /\ @ > 0 THEN @ - 1
                ELSE IF ~needs_ct /\ @ < resources.ct_scanner.total THEN @ + 1 ELSE @,
            !.blood_units_o_neg.available =
                IF InList("TRAUMA", active_alerts) /\ @ >= 2 THEN @ - 2 ELSE @]

\* update_hospital_resources taking two CT scanners for a stroke or trauma patient.
update_hospital_resources_two_ct(resources, patient_data) ==
    LET predictions   == Get(Get(patient_data, "predictions", EmptyDict), "predictions", EmptyDict)
        active_alerts == Get(patient_data, "active_alerts", <<>>)
    IN  [resources EXCEPT
            !.icu_beds.available    =
                IF Get(predictions, "needs_icu", FALSE) /\ @ > 0 THEN @ - 1 ELSE @,
            !.ventilators.available =
                IF Get(predictions, "needs_intubation", FALSE) /\ @ > 0 THEN @ - 1 ELSE @,
            !.or_rooms.available    =
                IF Get(predictions, "needs_or", FALSE) /\ @ > 0 THEN @ - 1 ELSE @,
            !.ct_scanner.available  =
                IF (InList("STROKE", active_alerts) \/ InList("TRAUMA", active_alerts)) /\ @ > 0
                THEN @ - 2 ELSE @,
            !.blood_units_o_neg.available =
                IF InList("TRAUMA", active_alerts) /\ @ >= 2 THEN @ - 2 ELSE @]

\* update_hospital_resources(patient_data), from resources to what it leaves.
update_hospital_resources(resources, patient_data) ==
    LET predictions   == Get(Get(patient_data, "predictions", EmptyDict), "predictions", EmptyDict)
        active_alerts == Get(patient_data, "active_alerts", <<>>)
    IN  [resources EXCEPT
            !.icu_beds.available    =
                IF Get(predictions, "needs_icu", FALSE) /\ @ > 0 THEN @ - 1 ELSE @,
            !.ventilators.available =
                IF Get(predictions, "needs_intubation", FALSE) /\ @ > 0 THEN @ - 1 ELSE @,
            !.or_rooms.available    =
                IF Get(predictions, "needs_or", FALSE) /\ @ > 0 THEN @ - 1 ELSE @,
            !.ct_scanner.available  =
                IF (InList("STROKE", active_alerts) \/ InList("TRAUMA", active_alerts)) /\ @ > 0
                THEN @ - 1 ELSE @,
            !.blood_units_o_neg.available =
                IF InList("TRAUMA", active_alerts) /\ @ >= 2 THEN @ - 2 ELSE @]

\* What upd records of a call.
Updated(caller, resources, patient_data, after) ==
    [caller        |-> caller,
     before        |-> resources,
     predictions   |-> Get(Get(patient_data, "predictions", EmptyDict), "predictions", EmptyDict),
     active_alerts |-> Get(patient_data, "active_alerts", <<>>),
     after         |-> after]

NoUpdate == Updated("none", InitialResources, EmptyDict, InitialResources)

\* The ETA with a minute taken off on every cycle
eta_of_every_cycle(patient_data) ==
    Max(0, patient_data.initial_eta - patient_data.elapsed_time)

\* eta = max(0, patient_data['initial_eta'] - patient_data['elapsed_time'] // 3)
eta_of(patient_data) ==
    Max(0, patient_data.initial_eta - (patient_data.elapsed_time \div 3))

\* The session as initialize_session_state leaves it on the first run.
DashboardStart ==
    /\ patients = InitialPatients
    /\ selected_patient = "P-2024-001"
    /\ hospital_resources = InitialResources
    /\ next_patient_num = InitialNextNum
    /\ next_amb_num = InitialNextNum
    /\ clicks = 0
    /\ upd = NoUpdate

(***************************************************************************)
(* The EMT voice simulator (simulators/emt_voice_simulator.py).            *)
(***************************************************************************)

\* self.emt_name, self.patient_name, self.patient_ssn, self.ambulance_id
emt_name     == "John Smith"
patient_name == "Sarah Johnson"
patient_ssn  == "123-45-6789"
ambulance_id == "AMB-001"

mi_scenario_notes ==
    << "This is EMT " \o emt_name \o " from ambulance " \o ambulance_id
          \o ". We have a 58-year-old female patient " \o patient_name
          \o ", SSN " \o patient_ssn
          \o ", presenting with severe chest pain radiating to the left arm. "
          \o "Patient reports history of angina and hypertension. ETA 8 minutes.",
       "Update on patient " \o patient_name
          \o ". Chest pain started approximately 45 minutes ago. Patient describes "
          \o "it as crushing pressure. Administered aspirin 325mg and started "
          \o "oxygen at 4L. Vitals show tachycardia and hypotension.",
       "Patient is experiencing diaphoresis and nausea. Strong suspicion of "
          \o "myocardial infarction. Patient states her father died of heart attack "
          \o "at age 62. Currently on nitroglycerin from personal medication. "
          \o "Request cardiology team standby.",
       "ETA now 4 minutes. Patient " \o patient_name
          \o " remains conscious but in significant distress. Pain level 8 out of "
          \o "10. ST elevation noted on 12-lead ECG. This appears to be an acute "
          \o "MI. Recommend immediate catheter lab prep.",
       "Two minutes out. Patient condition stable but critical. Nitroglycerin "
          \o "providing minimal relief. IV established. All documentation will be "
          \o "transferred upon arrival. Catheter lab should be ready." >>

trauma_scenario_notes ==
    << "EMT " \o emt_name \o " reporting. Motor vehicle collision victim, "
          \o patient_name \o ", SSN " \o patient_ssn
          \o ". Multiple trauma, suspected internal bleeding. Patient is "
          \o "semi-conscious. ETA 10 minutes.",
       "Patient has visible trauma to chest and abdomen. Possible rib "
          \o "fractures. Blood pressure dropping. Started two large bore IVs with "
          \o "normal saline. Rapid transport initiated.",
       "Update: Patient becoming more unstable. Signs of shock developing. "
          \o "Increased fluid resuscitation. Surgery team should be notified "
          \o "immediately. ETA 5 minutes." >>

\* The note generate_voice_note returns once the list is exhausted.
final_update ==
    "Final update: Arriving at hospital now. Patient " \o patient_name
        \o " ready for immediate transfer to ER team."

\* EMTVoiceSimulator.__init__(scenario): the fields that a call reads or writes.
EMTVoiceSimulator(scenario) ==
    [scenario |-> scenario, patient_id |-> "P-2024-001", eta_minutes |-> 8,
     current_note_index |-> 0]

\* get_scenario_notes(self)
get_scenario_notes(self) ==
    IF self.scenario = "mi_patient" THEN mi_scenario_notes
    ELSE IF self.scenario = "trauma" THEN trauma_scenario_notes
    ELSE mi_scenario_notes

\* generate_voice_note with the cursor advanced on every call
advance_cursor_always(self, exhausted) ==
    [self EXCEPT !.current_note_index = @ + 1]

\* self.current_note_index += 1, in the branch that returns a note of the list
advance_cursor(self, exhausted) ==
    IF exhausted THEN self ELSE [self EXCEPT !.current_note_index = @ + 1]

\* generate_voice_note(self) at the time now: the simulator after the call and
\* the dict it returns.
generate_voice_note(self, now) ==
    LET notes     == get_scenario_notes(self)
        exhausted == self.current_note_index >= Len(notes)
        after     == advance_cursor(self, exhausted)
    IN  [self |-> after,
         note |-> [timestamp    |-> now,
                   ambulance_id |-> ambulance_id,
                   patient_id   |-> self.patient_id,
                   emt_name     |-> emt_name,
                   voice_note   |-> IF exhausted THEN final_update
                                    ELSE notes[self.current_note_index + 1],
                   note_type    |-> "voice_transcription",
                   eta_minutes  |-> Max(0, after.eta_minutes - (after.current_note_index * 2))]]

\* No simulator constructed.
NoVoice == [sim |-> EMTVoiceSimulator("none"), now |-> 0, returned |-> <<>>, stream |-> "none"]

(***************************************************************************)
(* dashboard/er_dashboard.py and dashboard/improved_er_dashboard.py.       *)
(*                                                                         *)
(* Both keep one patient, P-2024-001, whose condition is critical.  The    *)
(* model keeps the telemetry history (each reading by its number and the   *)
(* names of its fields), the voice notes as generate_voice_note returned   *)
(* them, the voice simulator and, for improved_er_dashboard.py, the        *)
(* current_alerts of the patient.  The redacted text and the PII risk      *)
(* that are stored with a voice note are derived from the note and only    *)
(* displayed.                                                              *)
(***************************************************************************)

\* check_vitals_alert(vitals): the alerts (their leading pictographs left out)
\* and the severity, which each test that finds something assigns anew.
check_vitals_alert(vitals) ==
    LET hr       == vitals["heart_rate"]
        spo2     == vitals["spo2"]
        systolic == vitals["blood_pressure_systolic"]
        hr_alert ==
            IF hr < 40 \/ hr > 150 THEN <<"CRITICAL HEART RATE: " \o Decimal(hr) \o " bpm">>
            ELSE IF hr < 50 \/ hr > 120 THEN <<"Abnormal Heart Rate: " \o Decimal(hr) \o " bpm">>
            ELSE <<>>
        spo2_alert ==
            IF spo2 < 85 THEN <<"CRITICAL OXYGEN: " \o Decimal(spo2) \o "%">>
            ELSE IF spo2 < 90 THEN <<"Low Oxygen: " \o Decimal(spo2) \o "%">>
            ELSE <<>>
        bp_alert ==
            IF systolic < 70 THEN <<"CRITICAL HYPOTENSION: " \o Decimal(systolic) \o " mmHg">>
            ELSE IF systolic < 90 THEN <<"Hypotension: " \o Decimal(systolic) \o " mmHg">>
            ELSE <<>>
        after_hr ==
            IF hr < 40 \/ hr > 150 THEN "CODE_BLUE_PREP"
            ELSE IF hr < 50 \/ hr > 120 THEN "WARNING" ELSE "NORMAL"
        after_spo2 ==
            IF spo2 < 85 THEN "CODE_BLUE_PREP" ELSE IF spo2 < 90 THEN "WARNING" ELSE after_hr
        after_bp ==
            IF systolic < 70 THEN "CODE_BLUE_PREP" ELSE IF systolic < 90 THEN "WARNING"
            ELSE after_spo2
    IN  [alerts |-> hr_alert \o spo2_alert \o bp_alert, severity |-> after_bp]

\* SmartAmbulanceSystem.check_critical_vitals(vitals_row) of
\* pipeline/ambulance_pipeline.py: the same tests in the same order as
\* check_vitals_alert, returned as a dict (timestamp and blood_pressure, copied
\* from the row, left out).
check_critical_vitals(vitals_row) ==
    LET checked == check_vitals_alert(vitals_row)
    IN  [has_alert  |-> Len(checked.alerts) > 0,
         severity   |-> checked.severity,
         alerts     |-> checked.alerts,
         heart_rate |-> vitals_row["heart_rate"],
         spo2       |-> vitals_row["spo2"]]

\* initialize_session_state of the dashboard app, before the first run of main().
ErStart(app) ==
    [app |-> app, runs |-> 0, selected_patient |-> "P-2024-001", telemetry_history |-> <<>>,
     voice_notes |-> <<>>, current_alerts |-> <<>>,
     voice_sim |-> EMTVoiceSimulator("mi_patient")]

\* Neither of the two dashboards is running.
NoEr == ErStart("none")

\* The history after a run of main(): the reading of this run is appended,
\* then the history is cut to its last 20 readings.
history_after(history, n) == keep_last(Append(history, StoredReading(n)))

\* "Simulate getting a new voice note periodically": a note is generated while
\* there are fewer notes than a fifth of the readings.
voice_after(voice_notes, history, voice_sim, now) ==
    IF Len(voice_notes) < Len(history) \div 5
    THEN LET r == generate_voice_note(voice_sim, now)
         IN  [voice_notes |-> Append(voice_notes, r.note), voice_sim |-> r.self]
    ELSE [voice_notes |-> voice_notes, voice_sim |-> voice_sim]

(***************************************************************************)
(* The calculators applied to inputs drawn from bounded sets.              *)
(* One behaviour is one invocation: call holds the arguments and the       *)
(* result.                                                                 *)
(***************************************************************************)

\* Longest vitals history handed to calculate_deterioration_index.
MaxHist == 4

NoCall == [fn |-> "none", vitals |-> EmptyDict, symptoms |-> EmptyDict, scores |-> EmptyDict,
           history |-> <<>>, result |-> EmptyDict]

Idle == call.fn = "none"

Invoke(fn, vitals, symptoms, scores, history, result) ==
    /\ call' = [fn |-> fn, vitals |-> vitals, symptoms |-> symptoms, scores |-> scores,
               history |-> history, result |-> result]
    /\ UNCHANGED <<red, dashVars, voice, er>>

\* scores dicts: each named score of a dict of full is missing, or is a dict
\* holding key with the value full gives it.
ScoreDicts(full, names, key) ==
    {[n \in K |-> [k \in {key} |-> d[n]]] : d \in full, K \in SUBSET names}

SeverityVitals ==
    WithMissingKeys([heart_rate : {49, 50, 120, 121, 125}, spo2 : {89, 90, 93, 94},
                     blood_pressure_systolic : {85, 89, 90}, gcs : {8, 9, 12, 13}],
                    {"heart_rate", "spo2", "blood_pressure_systolic", "gcs"})

SeveritySymptoms ==
    WithMissingKeys([chest_pain : BOOLEAN, st_elevation : BOOLEAN], {"chest_pain", "st_elevation"})

SeverityScores ==
    {EmptyDict, [shock_index |-> EmptyDict]}
    \cup {[shock_index |-> [value |-> v]] : v \in {100, 101, 147}}

TraumaVitals ==
    WithMissingKeys([gcs : {5, 6, 8, 9, 12, 13}, blood_pressure_systolic : {49, 50, 75, 76, 89, 90},
                     respiratory_rate : {5, 6, 9, 10, 29, 30}],
                    {"gcs", "blood_pressure_systolic", "respiratory_rate"})

QsofaVitals ==
    WithMissingKeys([respiratory_rate : {21, 22, 24}, gcs : {13, 14, 15},
                     blood_pressure_systolic : {95, 100, 101}],
                    {"gcs", "blood_pressure_systolic", "respiratory_rate"})

StemiSymptoms ==
    WithMissingKeys([chest_pain : BOOLEAN, st_elevation : BOOLEAN, diaphoresis : BOOLEAN,
                     nausea : BOOLEAN],
                    {"chest_pain", "st_elevation", "diaphoresis", "nausea"})

AirwayVitals ==
    WithMissingKeys([gcs : {8, 9, 12, 13}, spo2 : {87, 88, 91, 92},
                     respiratory_rate : {7, 8, 30, 31}],
                    {"gcs", "spo2", "respiratory_rate"})

AirwaySymptoms == WithMissingKeys([airway_obstruction : BOOLEAN], {"airway_obstruction"})

ShockVitals ==
    WithMissingKeys([heart_rate : {0, 63, 67, 70, 90, 91, 98, 100, 101, 140, 201},
                     blood_pressure_systolic : {-100, 0, 1, 8, 80, 100, 120, 200}],
                    {"heart_rate", "blood_pressure_systolic"})

NihssSymptoms == WithMissingKeys([stroke_suspected : BOOLEAN], {"stroke_suspected"})

\* Readings a history is made of: the three of the worked example, readings at
\* and just past each threshold relative to the first, and one that lacks the
\* heart rate.
HistoryReadings ==
    {[heart_rate |-> r[1], spo2 |-> r[2], blood_pressure_systolic |-> r[3]] :
        r \in {<<80, 98, 120>>, <<85, 97, 118>>, <<95, 93, 100>>, <<90, 95, 105>>,
               <<91, 98, 120>>, <<80, 94, 120>>, <<80, 98, 104>>}}
    \cup {[spo2 |-> 98, blood_pressure_systolic |-> 120]}

Histories == UNION {[1..n -> HistoryReadings] : n \in 0..MaxHist}

AlertVitals ==
    WithMissingKeys([gcs : {4, 5}, blood_pressure_systolic : {69, 70}, spo2 : {79, 80}],
                    {"gcs", "blood_pressure_systolic", "spo2"})

AlertScores ==
    ScoreDicts([stemi_checklist : {2, 3}, nihss : {7, 8}, trauma_score : {499, 500},
                qsofa : {1, 2}],
               {"stemi_checklist", "nihss", "trauma_score", "qsofa"}, "score")

InterventionVitals ==
    WithMissingKeys([gcs : {4, 5, 8, 9}, blood_pressure_systolic : {59, 60}],
                    {"gcs", "blood_pressure_systolic"})

InterventionScores ==
    ScoreDicts([airway_risk : {3, 4}, severity : {59, 60}, trauma_score : {399, 400},
                nihss : {7, 8}, stemi_checklist : {2, 3}, qsofa : {1, 2}],
               {"airway_risk", "severity", "trauma_score", "nihss", "stemi_checklist", "qsofa"},
               "score")

CallNihss ==
    /\ Idle
    /\ \E sy \in NihssSymptoms : \E draw \in NihssDraws(sy) :
           Invoke("calculate_nihss", EmptyDict, sy, EmptyDict, <<>>, calculate_nihss(sy, draw))

CallTraumaScore ==
    /\ Idle
    /\ \E v \in TraumaVitals :
           Invoke("calculate_trauma_score", v, EmptyDict, EmptyDict, <<>>, calculate_trauma_score(v))

CallQsofa ==
    /\ Idle
    /\ \E v \in QsofaVitals :
           Invoke("calculate_qsofa", v, EmptyDict, EmptyDict, <<>>, calculate_qsofa(v))

CallStemiChecklist ==
    /\ Idle
    /\ \E sy \in StemiSymptoms :
           Invoke("calculate_stemi_checklist", EmptyDict, sy, EmptyDict, <<>>,
                  calculate_stemi_checklist(sy))

CallAirwayRisk ==
    /\ Idle
    /\ \E v \in AirwayVitals, sy \in AirwaySymptoms :
           Invoke("calculate_airway_risk", v, sy, EmptyDict, <<>>, calculate_airway_risk(v, sy))

CallShockIndex ==
    /\ Idle
    /\ \E v \in ShockVitals :
           Invoke("calculate_shock_index", v, EmptyDict, EmptyDict, <<>>, calculate_shock_index(v))

CallDeteriorationIndex ==
    /\ Idle
    /\ \E h \in Histories :
           Invoke("calculate_deterioration_index", EmptyDict, EmptyDict, EmptyDict, h,
                  calculate_deterioration_index(h))

CallPredictSeverity ==
    /\ Idle
    /\ \E v \in SeverityVitals, sy \in SeveritySymptoms, sc \in SeverityScores :
           Invoke("predict_severity", v, sy, sc, <<>>, predict_severity(v, sy, sc))

CallPredictActiveAlerts ==
    /\ Idle
    /\ \E v \in AlertVitals, sc \in AlertScores :
           Invoke("predict_active_alerts", v, EmptyDict, sc, <<>>,
                  [alerts |-> predict_active_alerts(v, EmptyDict, sc)])

CallPredictInterventions ==
    /\ Idle
    /\ \E v \in InterventionVitals, sc \in InterventionScores :
           Invoke("predict_interventions", v, EmptyDict, sc, <<>>,
                  predict_interventions(v, EmptyDict, sc))

\* Alert lists: the lists predict_active_alerts can return, and lists out of
\* order, with a repeated alert and with an unknown alert.
ProtocolAlerts ==
    {Kept(<<"STEMI", "STROKE", "TRAUMA", "SEPSIS", "CARDIAC_ARREST_RISK">>, keep) :
        keep \in [1..5 -> BOOLEAN]}
    \cup {<<"STROKE", "STEMI">>, <<"SEPSIS", "SEPSIS">>, <<"HYPOGLYCEMIA">>}

ProtocolPredictions ==
    WithMissingKeys([likely_stemi : BOOLEAN, likely_stroke : BOOLEAN, likely_sepsis : BOOLEAN,
                     needs_intubation : BOOLEAN, needs_or : BOOLEAN],
                    {"likely_stemi", "likely_stroke", "likely_sepsis", "needs_intubation",
                     "needs_or"})

\* activate_protocols only reads its arguments: after the call they are what
\* they were.
CallActivateProtocols ==
    /\ Idle
    /\ \E alerts \in ProtocolAlerts, predictions \in ProtocolPredictions :
           call' = [fn |-> "activate_protocols",
                    active_alerts |-> alerts, predictions |-> predictions,
                    after  |-> [active_alerts |-> alerts, predictions |-> predictions],
                    result |-> activate_protocols(alerts, predictions)]
    /\ UNCHANGED <<red, dashVars, voice, er>>

\* calculate_clinical_scores(patient_data) for a patient of the dashboard whose
\* latest reading is any that generate_vitals returns for the condition.
CallCalculateClinicalScores ==
    /\ Idle
    /\ \E pc \in Presentations :
           \E reading \in generate_vitals(pc[2]), nihss \in NihssDraws(dashboard_symptoms(pc[1])) :
               call' = [fn |-> "calculate_clinical_scores",
                        chief_complaint |-> pc[1], condition |-> pc[2],
                        latest_vitals |-> scored_vitals(reading), nihss |-> nihss,
                        result |-> stored_by_clinical_scores(pc[1], reading, nihss)]
    /\ UNCHANGED <<red, dashVars, voice, er>>

\* Readings at and just past every threshold of the vitals alerts.
ThresholdVitals ==
    [heart_rate : {39, 40, 49, 50, 120, 121, 150, 151}, spo2 : {84, 85, 89, 90},
     blood_pressure_systolic : {69, 70, 89, 90}]

CallCheckVitalsAlert ==
    /\ Idle
    /\ \E v \in ThresholdVitals :
           Invoke("check_vitals_alert", v, EmptyDict, EmptyDict, <<>>, check_vitals_alert(v))

CallCheckCriticalVitals ==
    /\ Idle
    /\ \E v \in ThresholdVitals :
           Invoke("check_critical_vitals", v, EmptyDict, EmptyDict, <<>>, check_critical_vitals(v))

\* Vitals and scores at and just past the thresholds that the alerts and the
\* predictions read, each key or score present or missing.
TriageVitals ==
    WithMissingKeys([gcs : {4, 5}, blood_pressure_systolic : {59, 60, 69, 70}, spo2 : {79, 80}],
                    {"gcs", "blood_pressure_systolic", "spo2"})

TriageScores ==
    ScoreDicts([stemi_checklist : {2, 3}, nihss : {7, 8}, trauma_score : {399, 400, 499, 500},
                qsofa : {1, 2}],
               {"stemi_checklist", "nihss", "trauma_score", "qsofa"}, "score")

\* The three predictors applied to the same vitals and scores, and the
\* protocols activated from what the first two returned, as the module's
\* __main__ and the dashboard's calculate_clinical_scores do.
CallTriage ==
    /\ Idle
    /\ \E v \in TriageVitals, sc \in TriageScores :
           LET active_alerts == predict_active_alerts(v, EmptyDict, sc)
               predictions   == predict_interventions(v, EmptyDict, sc).predictions
           IN  Invoke("triage", v, EmptyDict, sc, <<>>,
                      [active_alerts       |-> active_alerts,
                       predictions         |-> predictions,
                       activated_protocols |-> activate_protocols(active_alerts, predictions)])

ScoreInit == call = NoCall /\ red = NoRedaction /\ DashboardStart /\ voice = NoVoice /\ er = NoEr

ScoreNext ==
    \/ CallNihss
    \/ CallTraumaScore
    \/ CallQsofa
    \/ CallStemiChecklist
    \/ CallAirwayRisk
    \/ CallShockIndex
    \/ CallDeteriorationIndex
    \/ CallPredictSeverity
    \/ CallPredictActiveAlerts
    \/ CallPredictInterventions
    \/ CallActivateProtocols
    \/ CallCalculateClinicalScores
    \/ CallCheckVitalsAlert
    \/ CallCheckCriticalVitals
    \/ CallTriage

ScoreSpec == ScoreInit /\ [][ScoreNext]_vars

(***************************************************************************)
(* The redactor applied to texts drawn from a bounded set: redact_text,    *)
(* then is_hipaa_compliant on what it returned, as the module's __main__   *)
(* does with each of its test cases.  red holds the text, the entities     *)
(* detected in it, the redacted text and the verdict.                      *)
(***************************************************************************)

\* Most fragments concatenated into an input text.
MaxFrags == 3
\* Most placeholder tokens and separators concatenated into an input text.
MaxTokens == 3

\* The texts the repository redacts in its own tests (test_system.py Test 4, the
\* test_cases of aparavi_redactor.py) and the example of the specification.
TestTexts ==
    {"Patient John Smith, SSN 123-45-6789",
     "Patient John Smith, SSN 123-45-6789, has chest pain.",
     "Patient John Smith, SSN 123-45-6789, presenting with chest pain.",
     "EMT Sarah Johnson contacted Dr. Michael Brown at 555-123-4567.",
     "Patient Jane Doe was transported from 123 Main Street.",
     "Contact: john.doe@email.com for follow-up."}

\* One fragment per pattern, and characters to put between and around them.
Fragments ==
    {"123-45-6789", "555-123-4567", "@b.co", "John Smith", "12 Main Street", " ", "9"}

\* The placeholder tokens: what _get_replacement returns for the five types and
\* for any other type.
PlaceholderTokens ==
    {get_replacement(PiiTypes[n]) : n \in 1..Len(PiiTypes)} \cup {get_replacement("OTHER")}

Separators == {" ", ",", "."}

RECURSIVE Concats(_, _)
\* The concatenations of at most n elements of parts.
Concats(parts, n) ==
    IF n = 0 THEN {""}
    ELSE LET shorter == Concats(parts, n - 1)
         IN  shorter \cup {p \o s : p \in parts, s \in shorter}

FragmentTexts    == Concats(Fragments, MaxFrags)
PlaceholderTexts == Concats(PlaceholderTokens \cup Separators, MaxTokens)

\* redacted = redactor.redact_text(text)
RedactText ==
    /\ Idle
    /\ red.step = "none"
    /\ \E t \in TestTexts \cup FragmentTexts \cup PlaceholderTexts :
          red' = [step |-> "redacted", text |-> t, detected |-> detect_pii_locally(t),
                  redacted |-> redact_text(t), compliant |-> FALSE]
    /\ UNCHANGED <<call, dashVars, voice, er>>

\* redactor.is_hipaa_compliant(redacted)
CheckCompliance ==
    /\ red.step = "redacted"
    /\ red' = [red EXCEPT !.step = "checked", !.compliant = is_hipaa_compliant(red.redacted)]
    /\ UNCHANGED <<call, dashVars, voice, er>>

\* Arguments for redact_text: None, the empty string and the test texts.
OptionalTexts == {None} \cup {Str(t) : t \in {""} \cup TestTexts}

\* What Presidio is taken to return for a text: the text itself, or the text
\* with a placeholder in it.
AnonymizerOutputs(t) == {t, "[PATIENT] " \o t}

\* redact_text of either redactor called on an argument that may be None.
CallRedactText ==
    /\ Idle
    /\ red.step = "none"
    /\ \E text \in OptionalTexts :
          \/ call' = [fn |-> "AparaviRedactor.redact_text", text |-> text,
                      result |-> aparavi_redact_text(text)]
          \/ \E anonymized \in AnonymizerOutputs(text.str) :
                call' = [fn |-> "PIIRedactor.redact_text", text |-> text,
                         result |-> presidio_redact_text(text, anonymized)]
    /\ UNCHANGED <<red, dashVars, voice, er>>

\* improved_er_dashboard.py, main(): the note generate_voice_note returns is
\* stored with its Aparavi redaction as redacted_note (the pii_risk analysis
\* stored with it is left out).  The simulator is one of any scenario with its
\* cursor anywhere from the first note to the end of the list.
RedactVoiceNote ==
    /\ Idle /\ red.step = "none"
    /\ \E scenario \in {"mi_patient", "trauma", "stroke"} :
           \E index \in 0..Len(get_scenario_notes(EMTVoiceSimulator(scenario))) :
               LET voice_sim  == [EMTVoiceSimulator(scenario) EXCEPT !.current_note_index = index]
                   voice_data == generate_voice_note(voice_sim, 0).note
               IN  call' = [fn |-> "redact_voice_note", voice_sim |-> voice_sim,
                            voice_data |->
                                voice_data @@
                                    [redacted_note |-> redact_text(voice_data.voice_note)]]
    /\ UNCHANGED <<red, dashVars, voice, er>>

RedactInit == red = NoRedaction /\ call = NoCall /\ DashboardStart /\ voice = NoVoice /\ er = NoEr

RedactNext ==
    \/ RedactText
    \/ CheckCompliance
    \/ CallRedactText
    \/ RedactVoiceNote

RedactSpec == RedactInit /\ [][RedactNext]_vars

(***************************************************************************)
(* The dashboard: runs of main() started by the auto-refresh and by the    *)
(* sidebar buttons, and update_hospital_resources called on a pool.        *)
(***************************************************************************)

\* Most sidebar buttons clicked in a session.
MaxClicks == 1
\* random.randint(5, 12) for the initial_eta of an added ambulance: the draws taken.
MinEta == 5
MaxEtaDrawn == 5

\* main() from "Get selected patient data" on, for the selected patient pid:
\* a reading is appended while the patient is en route, the patient arrives
\* when the ETA reaches 0, and the scores are calculated again.  The latest
\* reading scored is any that generate_vitals returns for the patient.
RunMain(pid) ==
    LET patient_data == patients[pid]
        en_route == patient_data.status = "EN_ROUTE"
        elapsed  == patient_data.elapsed_time + 1
        appended == Append(patient_data.telemetry_history, StoredReading(elapsed))
        eta      == eta_of([patient_data EXCEPT !.elapsed_time = elapsed])
        arrives  == en_route /\ eta = 0
        moved    ==
            IF ~en_route THEN patient_data
            ELSE [patient_data EXCEPT
                    !.telemetry_history = keep_last(appended),
                    !.elapsed_time    = elapsed,
                    !.status          = IF eta = 0 THEN "ARRIVED" ELSE @,
                    !.handoff_summary = IF eta = 0 THEN TRUE ELSE @,
                    !.resource_updates = IF eta = 0 THEN @ + 1 ELSE @]
        after    == update_hospital_resources(hospital_resources, moved)
    IN  /\ hospital_resources' = IF arrives THEN after ELSE hospital_resources
        /\ upd' = IF arrives THEN Updated("main", hospital_resources, moved, after) ELSE upd
        /\ IF moved.telemetry_history = <<>>
           THEN patients' = [patients EXCEPT ![pid] = moved]
           ELSE \E scored \in ScoreOutcomes[<<moved.chief_complaint, moved.condition>>] :
                   patients' = [patients EXCEPT ![pid] =
                                   [moved EXCEPT !.telemetry_history = score_latest(@),
                                                 !.active_alerts = scored.active_alerts,
                                                 !.predictions = scored.predictions]]

\* The sidebar buttons are there to click once a run of main() has drawn them,
\* and the first run of a session appends a reading for the patient selected
\* at the start.
ButtonsDrawn == patients["P-2024-001"].telemetry_history # <<>>

\* A run of main() started by the auto-refresh (time.sleep(2); st.rerun()) or
\* by the opening of the page.
Refresh ==
    /\ upd.caller # "direct"
    /\ RunMain(selected_patient)
    /\ UNCHANGED <<selected_patient, next_patient_num, next_amb_num, clicks, call, red, voice, er>>

\* A run of main() started by the click on a patient's button:
\* display_ambulance_selector selects the patient and the run goes on.
SelectPatient ==
    /\ upd.caller # "direct"
    /\ ButtonsDrawn
    /\ clicks < MaxClicks
    /\ \E pid \in DOMAIN patients :
          /\ selected_patient' = pid
          /\ RunMain(pid)
    /\ clicks' = clicks + 1
    /\ UNCHANGED <<next_patient_num, next_amb_num, call, red, voice, er>>

\* A run of main() started by the click on "Add New Ambulance":
\* add_new_ambulance(), then st.rerun() ends the run.
AddAmbulance ==
    /\ upd.caller # "direct"
    /\ ButtonsDrawn
    /\ clicks < MaxClicks
    /\ \E scenario \in scenarios, initial_eta \in MinEta..MaxEtaDrawn :
          LET pid == "P-2024-" \o Format03d(next_patient_num)
              amb_id == "AMB-" \o Format03d(next_amb_num)
              added == NewPatient(pid, amb_id, scenario[1], scenario[2], initial_eta)
          IN  /\ patients' = [p \in DOMAIN patients \cup {pid} |-> IF p = pid THEN added ELSE patients[p]]
              /\ selected_patient' = pid
    /\ next_patient_num' = next_patient_num + 1
    /\ next_amb_num' = next_amb_num + 1
    /\ clicks' = clicks + 1
    /\ UNCHANGED <<hospital_resources, upd, call, red, voice, er>>

\* Most units available of a resource in a pool update_hospital_resources is
\* applied to directly (two more for the blood units).
MaxAvailable == 1

Pools ==
    {[InitialResources EXCEPT !.icu_beds.available = icu, !.ventilators.available = vent,
                              !.or_rooms.available = ors, !.ct_scanner.available = ct,
                              !.blood_units_o_neg.available = blood] :
        icu \in 0..MaxAvailable, vent \in 0..MaxAvailable, ors \in 0..MaxAvailable,
        ct \in 0..MaxAvailable, blood \in 0..(MaxAvailable + 2)}

\* The patient_data of a direct call: any predictions, with or without their
\* keys, and the alerts the resources depend on.
PoolPatients ==
    WithMissingKeys(
        [predictions   : {[predictions |-> d] :
                             d \in WithMissingKeys([needs_icu : BOOLEAN, needs_intubation : BOOLEAN,
                                                    needs_or : BOOLEAN],
                                                   {"needs_icu", "needs_intubation", "needs_or"})},
         active_alerts : {<<>>, <<"STROKE">>, <<"TRAUMA">>, <<"SEPSIS">>, <<"STROKE", "TRAUMA", "SEPSIS">>}],
        {"predictions", "active_alerts"})

\* update_hospital_resources(patient_data) called on a pool, outside main().
CallUpdateHospitalResources ==
    /\ DashboardStart
    /\ \E pool \in Pools, patient_data \in PoolPatients :
          /\ hospital_resources' = update_hospital_resources(pool, patient_data)
          /\ upd' = Updated("direct", pool, patient_data, hospital_resources')
    /\ UNCHANGED <<patients, selected_patient, next_patient_num, next_amb_num, clicks, call, red, voice, er>>

DashInit == DashboardStart /\ call = NoCall /\ red = NoRedaction /\ voice = NoVoice /\ er = NoEr

DashNext ==
    \/ Refresh
    \/ SelectPatient
    \/ AddAmbulance
    \/ CallUpdateHospitalResources

DashSpec == DashInit /\ [][DashNext]_vars

\* main() ends with time.sleep(2); st.rerun(): while the page is open a run
\* is always followed by another.
SessionNext ==
    \/ Refresh
    \/ SelectPatient
    \/ AddAmbulance

DashLiveSpec == DashInit /\ [][SessionNext]_vars /\ WF_vars(Refresh)

(***************************************************************************)
(* The voice simulator: one simulator per behaviour, called repeatedly     *)
(* while the clock advances.                                               *)
(***************************************************************************)

MaxCalls == 7
MaxClock == 2

\* The scenario keys a simulator is constructed with; "stroke" has no note list.
ScenarioKeys == {"mi_patient", "trauma", "stroke"}

\* A call of generate_voice_note on the simulator.
GenerateVoiceNote ==
    /\ Len(voice.returned) < MaxCalls
    /\ LET r == generate_voice_note(voice.sim, voice.now)
       IN  voice' = [voice EXCEPT !.sim = r.self, !.returned = Append(@, r.note)]
    /\ UNCHANGED <<call, red, dashVars, er>>

\* Time passes between two calls (datetime.now()).
ClockTick ==
    /\ voice.now < MaxClock
    /\ voice' = [voice EXCEPT !.now = @ + 1]
    /\ UNCHANGED <<call, red, dashVars, er>>

VoiceInit ==
    /\ voice \in {[sim |-> EMTVoiceSimulator(s), now |-> 0, returned |-> <<>>, stream |-> "none"]
                   : s \in ScenarioKeys}
    /\ call = NoCall /\ red = NoRedaction /\ DashboardStart /\ er = NoEr

VoiceNext ==
    \/ GenerateVoiceNote
    \/ ClockTick

VoiceSpec == VoiceInit /\ [][VoiceNext]_vars

(***************************************************************************)
(* EMTVoiceSimulator.stream_data: the generator and the for loop that      *)
(* consumes it.  voice.stream is the position of the generator: at the     *)
(* test of the loop, suspended at the yield, or stopped after the break.   *)
(* stream_data may be started on a simulator that generate_voice_note has  *)
(* been called on, so the cursor starts anywhere in the list.  The loop is *)
(* not bounded: voice.returned keeps the last MaxCalls notes yielded and   *)
(* the clock stays at MaxClock once it has reached it.                     *)
(***************************************************************************)

\* The last MaxCalls notes of those yielded, the new one included.
last_yielded(returned, note) ==
    IF Len(returned) < MaxCalls THEN Append(returned, note)
    ELSE Append(Tail(returned), note)

\* if self.current_note_index <= len(self.get_scenario_notes())
stream_continues(self) == self.current_note_index <= Len(get_scenario_notes(self))

\* One turn of the while loop up to its yield or its break: if the test holds,
\* voice_note = self.generate_voice_note(); yield voice_note; else break, and
\* the generator is exhausted.
StreamTest ==
    /\ voice.stream = "test"
    /\ IF stream_continues(voice.sim)
       THEN LET r == generate_voice_note(voice.sim, voice.now)
            IN  voice' = [voice EXCEPT !.sim = r.self,
                                       !.returned = last_yielded(@, r.note),
                                       !.stream = "yield"]
       ELSE voice' = [voice EXCEPT !.stream = "stopped"]
    /\ UNCHANGED <<call, red, dashVars, er>>

\* The consumer asks for the next note: time.sleep(interval), then the test again.
StreamSleep ==
    /\ voice.stream = "yield"
    /\ voice' = [voice EXCEPT !.now = IF @ < MaxClock THEN @ + 1 ELSE @, !.stream = "test"]
    /\ UNCHANGED <<call, red, dashVars, er>>

\* generate_voice_note called directly before the stream is started
GenerateBeforeStream ==
    /\ voice.stream = "none"
    /\ voice.sim.current_note_index < Len(get_scenario_notes(voice.sim))
    /\ voice' = [voice EXCEPT !.sim = generate_voice_note(voice.sim, voice.now).self]
    /\ UNCHANGED <<call, red, dashVars, er>>

\* for note in self.stream_data(interval=15.0): the first note is asked for
StreamStart ==
    /\ voice.stream = "none"
    /\ voice' = [voice EXCEPT !.stream = "test"]
    /\ UNCHANGED <<call, red, dashVars, er>>

StreamNext ==
    \/ GenerateBeforeStream
    \/ StreamStart
    \/ StreamTest
    \/ StreamSleep

\* The for loop asks for the next note as soon as it has the last one, and
\* the generator runs to its next yield or to its end.
StreamSpec ==
    /\ VoiceInit /\ [][StreamNext]_vars
    /\ WF_vars(StreamStart) /\ WF_vars(StreamTest) /\ WF_vars(StreamSleep)

(***************************************************************************)
(* The two ER dashboards: runs of main(), each started by the auto-refresh *)
(* (time.sleep(2); st.rerun()) or by a sidebar button, which changes       *)
(* nothing before the run.  The time of a run is its number.               *)
(***************************************************************************)

MaxRuns == 22

\* er_dashboard.py main(): initialize_session_state tests for the key
\* 'simulator', which is never set, and so makes new simulators on every run;
\* the alerts of the latest reading are displayed and not stored.
ErMain ==
    /\ er.app = "er_dashboard"
    /\ er.runs < MaxRuns
    /\ LET history == history_after(er.telemetry_history, er.runs + 1)
           notes   == voice_after(er.voice_notes, history, EMTVoiceSimulator("mi_patient"),
                                  er.runs + 1)
       IN  er' = [er EXCEPT !.runs = @ + 1,
                            !.telemetry_history = history,
                            !.voice_notes = notes.voice_notes,
                            !.voice_sim = notes.voice_sim]
    /\ UNCHANGED <<call, red, dashVars, voice>>

\* improved_er_dashboard.py main() for the selected patient.
ImprovedMain ==
    /\ er.app = "improved_er_dashboard"
    /\ er.runs < MaxRuns
    /\ \E latest_vitals \in generate_vitals("critical") :
           LET history == history_after(er.telemetry_history, er.runs + 1)
               notes   == voice_after(er.voice_notes, history, er.voice_sim, er.runs + 1)
           IN  er' = [er EXCEPT !.runs = @ + 1,
                                !.telemetry_history = history,
                                !.current_alerts = check_vitals_alert(latest_vitals).alerts,
                                !.voice_notes = notes.voice_notes,
                                !.voice_sim = notes.voice_sim]
    /\ UNCHANGED <<call, red, dashVars, voice>>

ErInit ==
    /\ er \in {ErStart("er_dashboard"), ErStart("improved_er_dashboard")}
    /\ call = NoCall /\ red = NoRedaction /\ DashboardStart /\ voice = NoVoice

ErNext ==
    \/ ErMain
    \/ ImprovedMain

ErSpec == ErInit /\ [][ErNext]_vars

\* The ETA main() displays: max(0, 8 - len(telemetry_history) // 3).
displayed_eta(telemetry_history) == Max(0, 8 - (Len(telemetry_history) \div 3))

\* The number given to the reading of a run after the first MaxRuns: the
\* numbers of readings that have left the history are used again.
later_reading_number(history) == (history[Len(history)].n % (MaxRuns + 1)) + 1

\* main() of either ER dashboard on a run after the first MaxRuns; er.runs
\* stays at MaxRuns.
ErLaterMain ==
    /\ er.app \in {"er_dashboard", "improved_er_dashboard"}
    /\ er.runs = MaxRuns
    /\ \E latest_vitals \in generate_vitals("critical") :
           LET n       == later_reading_number(er.telemetry_history)
               history == history_after(er.telemetry_history, n)
               sim     == IF er.app = "er_dashboard" THEN EMTVoiceSimulator("mi_patient")
                          ELSE er.voice_sim
               notes   == voice_after(er.voice_notes, history, sim, n)
           IN  er' = [er EXCEPT !.telemetry_history = history,
                                !.current_alerts = IF er.app = "er_dashboard" THEN @
                                                   ELSE check_vitals_alert(latest_vitals).alerts,
                                !.voice_notes = notes.voice_notes,
                                !.voice_sim = notes.voice_sim]
    /\ UNCHANGED <<call, red, dashVars, voice>>

ErLiveNext ==
    \/ ErMain
    \/ ImprovedMain
    \/ ErLaterMain

\* The two ER dashboards under their auto-refresh, with no last run: main()
\* ends with time.sleep(2); st.rerun(), so a run that can start does start.
ErLiveSpec ==
    /\ ErInit /\ [][ErLiveNext]_vars
    /\ WF_vars(ErMain) /\ WF_vars(ImprovedMain) /\ WF_vars(ErLaterMain)

\* Any one of the three dashboards, from its start.
DashboardsInit ==
    /\ er \in {NoEr, ErStart("er_dashboard"), ErStart("improved_er_dashboard")}
    /\ call = NoCall /\ red = NoRedaction /\ DashboardStart /\ voice = NoVoice

AdvancedNext == er.app = "none" /\ DashNext

DashboardsNext ==
    \/ AdvancedNext
    \/ ErNext

DashboardsSpec == DashboardsInit /\ [][DashboardsNext]_vars

(***************************************************************************)
(* Properties                                                              *)
(***************************************************************************)

\* The counters of hospital_resources.
ResourceCounters ==
    {"icu_beds", "ct_scanner", "mri_scanner", "or_rooms", "ventilators", "blood_units_o_neg",
     "blood_units_o_pos"}

\* C1: in every state reached by runs of the dashboard (refresh cycles, patient
\* selections, ambulance additions, arrivals) every resource counter has
\* available >= 0, and update_hospital_resources applied to a pool leaves
\* unchanged every counter that is 0 and the O-neg blood units when they are
\* below 2.
C1_ResourcesNeverNegative ==
    /\ \A r \in ResourceCounters : hospital_resources[r].available >= 0
    /\ upd.caller # "none" =>
          /\ \A r \in ResourceCounters :
                upd.before[r].available = 0 => upd.after[r].available = 0
          /\ upd.before.blood_units_o_neg.available < 2 =>
                upd.after.blood_units_o_neg.available = upd.before.blood_units_o_neg.available

C1_Witness ==
    /\ upd.caller = "direct"
    /\ upd.before.icu_beds.available = 0 /\ Get(upd.predictions, "needs_icu", FALSE)
    /\ upd.before.ct_scanner.available = 0 /\ InList("STROKE", upd.active_alerts)
    /\ upd.before.blood_units_o_neg.available = 1 /\ InList("TRAUMA", upd.active_alerts)
    /\ hospital_resources = upd.before

\* Position i lies in the span of one of the entities.
InSomeSpan(i, es) == \E n \in 1..Len(es) : es[n].start <= i /\ i < es[n].end

RECURSIVE OutsideFrom(_, _, _)
\* The characters of t from position i on that lie outside every span, in order.
OutsideFrom(t, i, es) ==
    IF i >= Len(t) THEN ""
    ELSE (IF InSomeSpan(i, es) THEN "" ELSE At(t, i)) \o OutsideFrom(t, i + 1, es)

RECURSIVE IsSubsequenceFrom(_, _, _, _)
\* a[i:] can be read off b[j:] from left to right, skipping characters of b.
IsSubsequenceFrom(a, i, b, j) ==
    IF i >= Len(a) THEN TRUE
    ELSE IF j >= Len(b) THEN FALSE
    ELSE IF At(a, i) = At(b, j) THEN IsSubsequenceFrom(a, i + 1, b, j + 1)
    ELSE IsSubsequenceFrom(a, i, b, j + 1)

\* Two of the detected spans share a position.
SpansOverlap(es) ==
    \E m, n \in 1..Len(es) : m # n /\ es[m].start < es[n].end /\ es[n].start < es[m].end

\* When no two detected spans overlap, the characters outside the spans are
\* kept in order and the redacted text is compliant.
DisjointSpansKeepOutside ==
    (red.step # "none" /\ ~SpansOverlap(red.detected)) =>
        IsSubsequenceFrom(OutsideFrom(red.text, 0, red.detected), 0, red.redacted, 0)
DisjointSpansCompliant ==
    (red.step = "checked" /\ ~SpansOverlap(red.detected)) => red.compliant

\* C2 as stated: whatever the text and the matches detected in it, every
\* character of the text that lies outside all matched spans is present in the
\* output of redact_text, in its original order.
C2_OutsideCharactersKept ==
    red.step # "none" =>
        IsSubsequenceFrom(OutsideFrom(red.text, 0, red.detected), 0, red.redacted, 0)

RedactExampleText == "Patient John Smith, SSN 123-45-6789"

\* C3: redacting "Patient John Smith, SSN 123-45-6789" gives a text that
\* contains neither "123-45-6789" nor "John Smith", and in which neither the SSN
\* pattern nor the two-capitalized-words pattern matches any more.
C3_RedactExample ==
    (red.step # "none" /\ red.text = RedactExampleText) =>
        /\ ~Contains(red.redacted, "123-45-6789")
        /\ ~Contains(red.redacted, "John Smith")
        /\ finditer("SSN", red.redacted, 0) = <<>>
        /\ finditer("NAME", red.redacted, 0) = <<>>

C3_Witness ==
    /\ red.step = "checked"
    /\ red.text = RedactExampleText
    /\ Len(red.detected) = 2
    /\ red.redacted = "[PATIENT] Smith, SSN [SSN-REDACTED]"

\* C4 as stated: for every text t, is_hipaa_compliant(redact_text(t)) is true.
C4_RedactedIsCompliant == red.step = "checked" => red.compliant

\* C5: redact_text returns unchanged every text made only of placeholder tokens
\* and separators.
C5_PlaceholdersUnchanged ==
    (red.step # "none" /\ red.text \in PlaceholderTexts) => red.redacted = red.text

C5_Witness ==
    /\ red.step # "none"
    /\ red.text = "[PATIENT] [SSN-REDACTED]"
    /\ red.redacted = red.text

\* What predict_severity read from its arguments, absent keys defaulted.
SevHr   == Get(call.vitals, "heart_rate", 70)
SevSpo2 == Get(call.vitals, "spo2", 98)
SevSbp  == Get(call.vitals, "blood_pressure_systolic", 120)
SevGcs  == Get(call.vitals, "gcs", 15)
SevShock == IF "shock_index" \in DOMAIN call.scores /\ "value" \in DOMAIN call.scores["shock_index"]
            THEN call.scores["shock_index"]["value"] ELSE 70

\* The sum of the weights of the rules of section 4.5 that the arguments trigger.
SevRuleSum ==
      (IF SevHr > 120 \/ SevHr < 50 THEN 15 ELSE 0)
    + (IF SevSpo2 < 90 THEN 20 ELSE IF SevSpo2 < 94 THEN 10 ELSE 0)
    + (IF SevSbp < 90 THEN 20 ELSE 0)
    + (IF SevGcs < 9 THEN 25 ELSE IF SevGcs < 13 THEN 15 ELSE 0)
    + (IF "chest_pain" \in DOMAIN call.symptoms /\ call.symptoms["chest_pain"] THEN 10 ELSE 0)
    + (IF "st_elevation" \in DOMAIN call.symptoms /\ call.symptoms["st_elevation"] THEN 15 ELSE 0)
    + (IF SevShock > 100 THEN 15 ELSE 0)

\* The call of the worked example of section 8: heart_rate=125,
\* blood_pressure_systolic=85, spo2=89, gcs=13, no symptoms, no scores.
SeverityExampleCall ==
    /\ call.fn = "predict_severity"
    /\ call.vitals = [heart_rate |-> 125, blood_pressure_systolic |-> 85, spo2 |-> 89, gcs |-> 13]
    /\ call.symptoms = EmptyDict
    /\ call.scores = EmptyDict

\* C6 as stated: predict_severity on heart_rate=125, systolic=85, spo2=89,
\* gcs=13 returns score 45 and level URGENT.
C6_Original ==
    SeverityExampleCall => call.result.score = 45 /\ call.result.level = "URGENT"

\* C6 amended: predict_severity on heart_rate=125, systolic=85, spo2=89, gcs=13
\* returns score 55 = 15 (HR) + 20 (SpO2 below 90) + 20 (SBP) and level
\* EMERGENT, the contributing factors being the three rules in that order.
C6_SeverityExample ==
    SeverityExampleCall =>
        /\ call.result.score = 55
        /\ call.result.level = "EMERGENT"
        /\ call.result.contributing_factors =
               <<"Abnormal Heart Rate", "Critical Hypoxia", "Hypotension/Shock">>

C6_Witness == SeverityExampleCall /\ call.result.score = 55

\* C7: predict_severity returns min(100, sum of the weights of the triggered
\* rules), so 0 <= score <= 100, and the level is CRITICAL iff score >= 75,
\* EMERGENT iff 50 <= score < 75, URGENT iff 25 <= score < 50, NON-EMERGENT iff
\* score < 25.
C7_SeverityScore ==
    call.fn = "predict_severity" =>
        LET score == call.result.score
            level == call.result.level
        IN  /\ score \in Int
            /\ score = (IF SevRuleSum < 100 THEN SevRuleSum ELSE 100)
            /\ 0 <= score /\ score <= 100
            /\ level \in {"CRITICAL", "EMERGENT", "URGENT", "NON-EMERGENT"}
            /\ (level = "CRITICAL") = (score >= 75)
            /\ (level = "EMERGENT") = (50 <= score /\ score < 75)
            /\ (level = "URGENT") = (25 <= score /\ score < 50)
            /\ (level = "NON-EMERGENT") = (score < 25)

\* A call whose triggered rules sum to more than 100, so that the cap decides.
C7_Witness ==
    /\ call.fn = "predict_severity"
    /\ SevRuleSum > 100
    /\ call.result.score = 100
    /\ call.result.level = "CRITICAL"

\* C8: no calculator fails on missing input fields: every call, on readings and
\* history entries with any subset of their fields absent, returns a result
\* instead of raising.
C8_NoCalculatorRaises == call.fn # "none" => ~Raised(call.result)

\* What calculate_shock_index read, absent keys defaulted, and its denominator.
ShkHr  == Get(call.vitals, "heart_rate", 70)
ShkSbp == Get(call.vitals, "blood_pressure_systolic", 120)
ShkDen == IF ShkSbp = 0 THEN 1 ELSE ShkSbp

\* hr/den > 1.0 and hr/den > 0.9, by cross-multiplication with the sign of den.
ShkAboveOne  == IF ShkDen > 0 THEN ShkHr > ShkDen ELSE ShkHr < ShkDen
ShkAboveNine == IF ShkDen > 0 THEN 10 * ShkHr > 9 * ShkDen ELSE 10 * ShkHr < 9 * ShkDen

\* C9: calculate_shock_index returns a value for every heart rate and every
\* systolic BP, 0 included; with systolic BP 0 the value is the heart rate
\* (140 and 0 give 140.0 and Shock State); the interpretation is Shock State iff
\* hr/sbp > 1.0, Pre-Shock / Compensated iff 0.9 < hr/sbp <= 1.0, else Normal.
C9_ShockIndex ==
    call.fn = "calculate_shock_index" =>
        /\ ~Raised(call.result)
        /\ ShkSbp = 0 => call.result.value = 100 * ShkHr
        /\ (ShkHr = 140 /\ ShkSbp = 0) =>
               call.result.value = 14000 /\ call.result.interpretation = "Shock State"
        /\ (call.result.interpretation = "Shock State") = ShkAboveOne
        /\ (call.result.interpretation = "Pre-Shock / Compensated") = (ShkAboveNine /\ ~ShkAboveOne)
        /\ (call.result.interpretation = "Normal") = ~ShkAboveNine

C9_Witness ==
    /\ call.fn = "calculate_shock_index"
    /\ call.vitals = [heart_rate |-> 140, blood_pressure_systolic |-> 0]
    /\ call.result.value = 14000
    /\ call.result.interpretation = "Shock State"

\* Whether a history entry holds the three fields the deterioration index reads.
CompleteReading(v) == {"heart_rate", "spo2", "blood_pressure_systolic"} \subseteq DOMAIN v

\* The deterioration total of section 4.4 from the first and the last of the
\* three most recent entries.
DetTotal(first, last) ==
      (IF last["heart_rate"] - first["heart_rate"] > 10 THEN 1 ELSE 0)
    + (IF first["spo2"] - last["spo2"] > 3 THEN 2 ELSE 0)
    + (IF first["blood_pressure_systolic"] - last["blood_pressure_systolic"] > 15 THEN 2 ELSE 0)

DetLabel(total) ==
    IF total >= 3 THEN "Rapidly Deteriorating"
    ELSE IF total = 2 THEN "Deteriorating"
    ELSE IF total = 0 THEN "Stable"
    ELSE "Concerning Trend"

DetExample ==
    << [heart_rate |-> 80, spo2 |-> 98, blood_pressure_systolic |-> 120],
       [heart_rate |-> 85, spo2 |-> 97, blood_pressure_systolic |-> 118],
       [heart_rate |-> 95, spo2 |-> 93, blood_pressure_systolic |-> 100] >>

\* C10: calculate_deterioration_index returns the fixed Insufficient Data
\* result with score 0 for a history of fewer than 3 entries; otherwise, the
\* three most recent entries holding their fields, its score and
\* interpretation are those of the first and the last of the three most recent
\* entries alone (+1 heart rate up by more than 10, +2 SpO2 down by more than
\* 3, +2 systolic down by more than 15; >= 3 Rapidly Deteriorating, 2
\* Deteriorating, 0 Stable, else Concerning Trend); the example history gives 5
\* and Rapidly Deteriorating.
C10_DeteriorationIndex ==
    call.fn = "calculate_deterioration_index" =>
        LET h == call.history
            n == Len(h)
        IN  /\ n < 3 => call.result = [score |-> 0, interpretation |-> "Insufficient Data",
                                       trend |-> "Unknown"]
            /\ (n >= 3 /\ \A i \in (n - 2)..n : CompleteReading(h[i])) =>
                   /\ ~Raised(call.result)
                   /\ call.result.score = DetTotal(h[n - 2], h[n])
                   /\ call.result.interpretation = DetLabel(DetTotal(h[n - 2], h[n]))
            /\ h = DetExample =>
                   /\ ~Raised(call.result)
                   /\ call.result.score = 5
                   /\ call.result.interpretation = "Rapidly Deteriorating"

\* A history longer than three whose three most recent entries are the example
\* and whose older entry, compared with the last, would give another total.
C10_Witness ==
    /\ call.fn = "calculate_deterioration_index"
    /\ Len(call.history) = 4
    /\ SubSeq(call.history, 2, 4) = DetExample
    /\ call.history[1] = [heart_rate |-> 91, spo2 |-> 98, blood_pressure_systolic |-> 120]
    /\ call.result.score = 5
    /\ call.result.interpretation = "Rapidly Deteriorating"

\* The three qSOFA criteria of the vitals of the call; an absent field meets none.
QsRr  == "respiratory_rate" \in DOMAIN call.vitals /\ call.vitals["respiratory_rate"] >= 22
QsGcs == "gcs" \in DOMAIN call.vitals /\ call.vitals["gcs"] < 15
QsSbp == "blood_pressure_systolic" \in DOMAIN call.vitals
             /\ call.vitals["blood_pressure_systolic"] <= 100
QsCount == (IF QsRr THEN 1 ELSE 0) + (IF QsGcs THEN 1 ELSE 0) + (IF QsSbp THEN 1 ELSE 0)

\* The labels of the met criteria, in the order RR, GCS, SBP.
QsLabels ==
    (IF QsRr THEN <<"Tachypnea (RR >=22)">> ELSE <<>>)
        \o (IF QsGcs THEN <<"Altered Mental Status (GCS <15)">> ELSE <<>>)
        \o (IF QsSbp THEN <<"Hypotension (SBP <=100)">> ELSE <<>>)

\* C11: calculate_qsofa returns as score the number of criteria met among
\* RR >= 22, GCS < 15 and SBP <= 100 (0..3), lists exactly the met criteria in
\* that order, and reports High Sepsis Risk iff the score is at least 2; RR 24,
\* GCS 13, SBP 95 give score 3 and High Sepsis Risk.
C11_Qsofa ==
    call.fn = "calculate_qsofa" =>
        /\ call.result.score = QsCount
        /\ call.result.score \in 0..3
        /\ call.result.criteria_met = QsLabels
        /\ (call.result.interpretation = "High Sepsis Risk") = (call.result.score >= 2)
        /\ call.vitals = [respiratory_rate |-> 24, gcs |-> 13, blood_pressure_systolic |-> 95]
               => call.result.score = 3 /\ call.result.interpretation = "High Sepsis Risk"

C11_Witness ==
    /\ call.fn = "calculate_qsofa"
    /\ call.vitals = [respiratory_rate |-> 24, gcs |-> 13, blood_pressure_systolic |-> 95]
    /\ call.result.score = 3

\* The weight a symptom of the call contributes when present and true.
StemiPoints(key, weight) ==
    IF key \in DOMAIN call.symptoms /\ call.symptoms[key] = TRUE THEN weight ELSE 0

StemiTotal ==
    StemiPoints("chest_pain", 1) + StemiPoints("st_elevation", 2)
        + StemiPoints("diaphoresis", 1) + StemiPoints("nausea", 1)

\* C12: calculate_stemi_checklist returns the score 1*chest_pain +
\* 2*st_elevation + 1*diaphoresis + 1*nausea (0..5), with STEMI Likely iff the
\* score is at least 3, Possible ACS iff it is 1 or 2 and Unlikely STEMI iff it
\* is 0; chest pain, ST elevation and diaphoresis without nausea give 4 and
\* STEMI Likely.
C12_StemiChecklist ==
    call.fn = "calculate_stemi_checklist" =>
        /\ call.result.score = StemiTotal
        /\ call.result.score \in 0..5
        /\ (call.result.interpretation = "STEMI Likely") = (call.result.score >= 3)
        /\ (call.result.interpretation = "Possible ACS") = (call.result.score \in 1..2)
        /\ (call.result.interpretation = "Unlikely STEMI") = (call.result.score = 0)
        /\ call.symptoms = [chest_pain |-> TRUE, st_elevation |-> TRUE, diaphoresis |-> TRUE,
                            nausea |-> FALSE]
               => call.result.score = 4 /\ call.result.interpretation = "STEMI Likely"

C12_Witness ==
    /\ call.fn = "calculate_stemi_checklist"
    /\ call.symptoms = [chest_pain |-> TRUE, st_elevation |-> TRUE, diaphoresis |-> TRUE,
                        nausea |-> FALSE]
    /\ call.result.score = 4

\* The note list the scenario key of the simulator selects: the trauma list for
\* "trauma", the MI list for every other key.
ScenarioList == IF voice.sim.scenario = "trauma" THEN trauma_scenario_notes ELSE mi_scenario_notes

\* C13: the k-th call of generate_voice_note returns the k-th note of the
\* scenario's list (the MI list for an unknown key) and advances the cursor by
\* one while k is at most the length of the list; every later call returns the
\* final arrival note and leaves the cursor alone, so the cursor never exceeds
\* the length of the list and no note is skipped or repeated.
C13_NotesInOrder ==
    /\ \A k \in 1..Len(voice.returned) :
           voice.returned[k].voice_note =
               IF k <= Len(ScenarioList) THEN ScenarioList[k] ELSE final_update
    /\ voice.sim.current_note_index = Min(Len(voice.returned), Len(ScenarioList))
    /\ voice.sim.current_note_index <= Len(ScenarioList)
    /\ \A j, k \in 1..Min(Len(voice.returned), Len(ScenarioList)) :
           j # k => voice.returned[j].voice_note # voice.returned[k].voice_note

\* An unknown key has returned the five MI notes and then the final note twice.
C13_Witness ==
    /\ voice.sim.scenario = "stroke"
    /\ Len(voice.returned) = 7
    /\ voice.returned[5].voice_note = mi_scenario_notes[5]
    /\ voice.returned[6].voice_note = final_update
    /\ voice.returned[7].voice_note = final_update
    /\ voice.sim.current_note_index = 5

\* The eta_minutes returned by the call before the k-th, the initial 8 minutes
\* of the simulator before the first.
PreviousEta(k) == IF k = 1 THEN voice.sim.eta_minutes ELSE voice.returned[k - 1].eta_minutes

\* C14: the eta_minutes of successive generate_voice_note calls goes down by 2
\* on each call until it is floored at 0, for the MI and the trauma scenario
\* alike: each call returns max(0, previous eta - 2), so the sequence never
\* increases and is 0 on the calls that return the final arrival note.
C14_EtaStepsDown ==
    \A k \in 1..Len(voice.returned) :
        /\ voice.returned[k].eta_minutes = Max(0, PreviousEta(k) - 2)
        /\ voice.returned[k].eta_minutes <= PreviousEta(k)
        /\ voice.returned[k].voice_note = final_update => voice.returned[k].eta_minutes = 0

\* The alert names in the order predict_active_alerts appends them.
AlertOrder == <<"STEMI", "STROKE", "TRAUMA", "SEPSIS", "CARDIAC_ARREST_RISK">>
AlertRank(a) == CHOOSE i \in 1..Len(AlertOrder) : AlertOrder[i] = a

\* A score of the call is present, and a vital sign of the call is present.
HasScore(name)   == name \in DOMAIN call.scores /\ "score" \in DOMAIN call.scores[name]
HasVital(name)   == name \in DOMAIN call.vitals
AlertRaised(a)   == \E i \in 1..Len(call.result.alerts) : call.result.alerts[i] = a

\* C15: predict_active_alerts returns a duplicate-free list of alerts out of
\* STEMI, STROKE, TRAUMA, SEPSIS, CARDIAC_ARREST_RISK in that relative order,
\* with STEMI iff the STEMI score is at least 3, STROKE iff NIHSS exceeds 7,
\* TRAUMA iff the trauma score is below 5, SEPSIS iff qSOFA is at least 2 and
\* CARDIAC_ARREST_RISK iff GCS < 5 and (SBP < 70 or SpO2 < 80).
C15_ActiveAlerts ==
    call.fn = "predict_active_alerts" =>
        LET alerts == call.result.alerts
        IN  /\ \A i \in 1..Len(alerts) : InList(alerts[i], AlertOrder)
            /\ \A i, j \in 1..Len(alerts) : i < j => AlertRank(alerts[i]) < AlertRank(alerts[j])
            /\ AlertRaised("STEMI") =
                   (HasScore("stemi_checklist") /\ call.scores["stemi_checklist"].score >= 3)
            /\ AlertRaised("STROKE") = (HasScore("nihss") /\ call.scores["nihss"].score > 7)
            /\ AlertRaised("TRAUMA") =
                   (HasScore("trauma_score") /\ call.scores["trauma_score"].score < 500)
            /\ AlertRaised("SEPSIS") = (HasScore("qsofa") /\ call.scores["qsofa"].score >= 2)
            /\ AlertRaised("CARDIAC_ARREST_RISK") =
                   /\ HasVital("gcs") /\ call.vitals["gcs"] < 5
                   /\ \/ HasVital("blood_pressure_systolic")
                            /\ call.vitals["blood_pressure_systolic"] < 70
                      \/ HasVital("spo2") /\ call.vitals["spo2"] < 80

\* All five alerts are raised by one call.
C15_Witness ==
    /\ call.fn = "predict_active_alerts"
    /\ call.result.alerts = AlertOrder
    /\ call.vitals = [gcs |-> 4, blood_pressure_systolic |-> 70, spo2 |-> 79]

\* A protocol is among the activations of the call; a prediction of the call
\* is present and true.
Activated(p)     == p \in DOMAIN call.result
Predicted(k)     == k \in DOMAIN call.predictions /\ call.predictions[k] = TRUE
AlertGiven(a)    == \E i \in 1..Len(call.active_alerts) : call.active_alerts[i] = a

\* C16: activate_protocols maps (active_alerts, predictions) to activations,
\* each protocol decided on its own: STEMI_PROTOCOL iff the STEMI alert or
\* likely_stemi, STROKE_PROTOCOL iff the STROKE alert or likely_stroke,
\* TRAUMA_PROTOCOL iff the TRAUMA alert, SEPSIS_PROTOCOL iff the SEPSIS alert or
\* likely_sepsis, AIRWAY_PREP iff needs_intubation, CODE_BLUE_PREP iff the
\* CARDIAC_ARREST_RISK alert; no alert and no true prediction give no
\* activation, and the arguments are left as they were.
C16_ActivateProtocols ==
    call.fn = "activate_protocols" =>
        /\ Activated("STEMI_PROTOCOL")  = (AlertGiven("STEMI") \/ Predicted("likely_stemi"))
        /\ Activated("STROKE_PROTOCOL") = (AlertGiven("STROKE") \/ Predicted("likely_stroke"))
        /\ Activated("TRAUMA_PROTOCOL") = AlertGiven("TRAUMA")
        /\ Activated("SEPSIS_PROTOCOL") = (AlertGiven("SEPSIS") \/ Predicted("likely_sepsis"))
        /\ Activated("AIRWAY_PREP")     = Predicted("needs_intubation")
        /\ Activated("CODE_BLUE_PREP")  = AlertGiven("CARDIAC_ARREST_RISK")
        /\ DOMAIN call.result \subseteq
               {"STEMI_PROTOCOL", "STROKE_PROTOCOL", "TRAUMA_PROTOCOL", "SEPSIS_PROTOCOL",
                "AIRWAY_PREP", "CODE_BLUE_PREP"}
        /\ (call.active_alerts = <<>> /\ \A k \in DOMAIN call.predictions : ~call.predictions[k])
               => call.result = EmptyDict
        /\ call.after.active_alerts = call.active_alerts
        /\ call.after.predictions = call.predictions

\* The STROKE alert alone, with needs_or predicted, starts the stroke protocol
\* only.
C16_Witness ==
    /\ call.fn = "activate_protocols"
    /\ call.active_alerts = <<"STROKE">>
    /\ Predicted("needs_or")
    /\ DOMAIN call.result = {"STROKE_PROTOCOL"}

\* The last n elements of a sequence.
LastOf(xs, n) == SubSeq(xs, Len(xs) - n + 1, Len(xs))

\* history holds at most 20 readings, and they are the latest of the appended
\* readings 1..appended, oldest first.
HoldsLatest(history, appended) ==
    /\ Len(history) <= 20
    /\ [i \in 1..Len(history) |-> history[i].n]
           = LastOf([i \in 1..appended |-> i], Min(20, appended))

\* C17: after every refresh cycle of any of the three dashboards a patient's
\* telemetry history holds at most 20 readings, which are the most recent
\* readings appended, in the order they were appended (the 21st reading evicts
\* the oldest).  advanced_clinical_dashboard.py appends a reading whenever it
\* advances elapsed_time, the two ER dashboards on every run.
C17_HistoryHoldsLatest ==
    /\ \A p \in DOMAIN patients :
           HoldsLatest(patients[p].telemetry_history, patients[p].elapsed_time)
    /\ HoldsLatest(er.telemetry_history, er.runs)

\* The 21st reading of a patient of the advanced dashboard has evicted the first.
C17_Witness ==
    \E p \in DOMAIN patients :
        /\ patients[p].elapsed_time = 21
        /\ Len(patients[p].telemetry_history) = 20
        /\ patients[p].telemetry_history[1].n = 2
        /\ patients[p].telemetry_history[20].n = 21

\* C18: redact_text of either redactor, called on the empty string or on None,
\* returns its argument unchanged ("" gives "", None gives None) without
\* running detection and without raising.
C18_EmptyOrNoneReturned ==
    (call.fn \in {"AparaviRedactor.redact_text", "PIIRedactor.redact_text"}
        /\ (call.text.is_none \/ call.text.str = "")) =>
            /\ ~Raised(call.result)
            /\ call.result.returned = call.text
            /\ call.result.returned.is_none = call.text.is_none
            /\ ~call.result.detection_called

\* The Presidio redactor was called on None and returned None.
C18_Witness ==
    /\ call.fn = "PIIRedactor.redact_text"
    /\ call.text = None
    /\ call.result.returned = None

\* Every reading of the history is as it was appended.
AsAppended(history) == \A i \in 1..Len(history) : history[i] = StoredReading(history[i].n)

\* C19: a reading is immutable once produced: after it has been appended to a
\* patient's telemetry history no later step of a processing cycle (scores,
\* severity, alerts, predictions, resource update) changes, adds or removes a
\* field of it.
C19_ReadingsImmutable ==
    /\ \A p \in DOMAIN patients : AsAppended(patients[p].telemetry_history)
    /\ AsAppended(er.telemetry_history)

\* From before to after no counter has grown, no total has changed, and the
\* MRI scanner and the O+ blood units are as they were.
OnlyConsumed(before, after) ==
    /\ DOMAIN after = DOMAIN before
    /\ \A r \in DOMAIN before :
           /\ DOMAIN after[r] = DOMAIN before[r]
           /\ after[r].available <= before[r].available
           /\ "total" \in DOMAIN before[r] => after[r].total = before[r].total
    /\ after.mri_scanner = before.mri_scanner
    /\ after.blood_units_o_pos = before.blood_units_o_pos

AvailableWithinTotal(resources) ==
    \A r \in DOMAIN resources :
        "total" \in DOMAIN resources[r] => resources[r].available <= resources[r].total

\* What a step started from: the pool of a direct call of
\* update_hospital_resources, the resources of the session otherwise.
ResourcesBefore == IF upd'.caller = "direct" THEN upd'.before ELSE hospital_resources

\* C20: the resource counters never increase: over refresh cycles, added
\* ambulances and arrivals no step raises the available value of a resource,
\* available never exceeds total where there is a total, and the totals, the
\* MRI scanner and the O+ blood units are never changed.
C20_ResourcesOnlyConsumed ==
    /\ []AvailableWithinTotal(hospital_resources)
    /\ [][OnlyConsumed(ResourcesBefore, hospital_resources')]_vars

\* A stroke patient has arrived and taken the CT scanner.
C20_Witness ==
    /\ upd.caller = "main"
    /\ InList("STROKE", upd.active_alerts)
    /\ upd.before.ct_scanner.available = 1
    /\ hospital_resources.ct_scanner.available = 0
    /\ hospital_resources.ct_scanner.total = 2

\* The value of a prediction of the call, and whether the call attached a
\* confidence under a key, with that value (hundredths).
PredictionIs(k)      == call.result.predictions[k]
ConfidenceIs(key, c) == key \in DOMAIN call.result.confidence_scores
                            /\ call.result.confidence_scores[key] = c
NoConfidence(key)    == key \notin DOMAIN call.result.confidence_scores

\* A rule of predict_interventions: the prediction is true exactly when the
\* condition holds, and its confidence is attached exactly then.
RuleHolds(k, key, c, condition) ==
    /\ PredictionIs(k) = condition
    /\ IF condition THEN ConfidenceIs(key, c) ELSE NoConfidence(key)

\* C21: predict_interventions applies independent threshold rules, each with a
\* fixed confidence attached exactly when it triggers: cardiac_arrest_imminent
\* iff GCS < 5 and SBP < 60 (0.85), needs_intubation iff airway score >= 4 or
\* GCS < 9 (0.90), needs_icu iff severity >= 60 (0.80), needs_or iff trauma
\* score < 4 (0.75), likely_stroke iff NIHSS > 7 (0.85), likely_stemi iff STEMI
\* score >= 3 (0.90), likely_sepsis iff qSOFA >= 2 (0.75); an absent vital sign
\* or score triggers nothing.
C21_PredictInterventions ==
    call.fn = "predict_interventions" =>
        LET gcs_below(n) == HasVital("gcs") /\ call.vitals["gcs"] < n
            sbp_below(n) == HasVital("blood_pressure_systolic")
                                /\ call.vitals["blood_pressure_systolic"] < n
            score_of(name) == call.scores[name].score
        IN  /\ DOMAIN call.result.predictions =
                   {"cardiac_arrest_imminent", "needs_intubation", "needs_icu", "needs_or",
                    "likely_stroke", "likely_stemi", "likely_sepsis"}
            /\ DOMAIN call.result.confidence_scores \subseteq
                   {"cardiac_arrest", "intubation", "icu", "or", "stroke", "stemi", "sepsis"}
            /\ RuleHolds("cardiac_arrest_imminent", "cardiac_arrest", 85,
                         gcs_below(5) /\ sbp_below(60))
            /\ RuleHolds("needs_intubation", "intubation", 90,
                         (HasScore("airway_risk") /\ score_of("airway_risk") >= 4) \/ gcs_below(9))
            /\ RuleHolds("needs_icu", "icu", 80,
                         HasScore("severity") /\ score_of("severity") >= 60)
            /\ RuleHolds("needs_or", "or", 75,
                         HasScore("trauma_score") /\ score_of("trauma_score") < 400)
            /\ RuleHolds("likely_stroke", "stroke", 85,
                         HasScore("nihss") /\ score_of("nihss") > 7)
            /\ RuleHolds("likely_stemi", "stemi", 90,
                         HasScore("stemi_checklist") /\ score_of("stemi_checklist") >= 3)
            /\ RuleHolds("likely_sepsis", "sepsis", 75,
                         HasScore("qsofa") /\ score_of("qsofa") >= 2)

\* Severity 60 alone: needs_icu is the only prediction, with confidence 0.80.
C21_Witness ==
    /\ call.fn = "predict_interventions"
    /\ HasScore("severity") /\ call.scores["severity"].score = 60
    /\ call.result.predictions["needs_icu"]
    /\ \A k \in DOMAIN call.result.predictions : k # "needs_icu" => ~call.result.predictions[k]
    /\ call.result.confidence_scores = [icu |-> 80]

\* The bands of the claim, for the vital signs of the call (defaults GCS 15,
\* SBP 120, RR 16, all in the top band).
GcsBand(v) ==
    LET gcs == IF "gcs" \in DOMAIN v THEN v["gcs"] ELSE 15
    IN  CASE gcs >= 13 -> 4 [] gcs \in 9..12 -> 3 [] gcs \in 6..8 -> 2 [] OTHER -> 1
SbpBand(v) ==
    LET sbp == IF "blood_pressure_systolic" \in DOMAIN v THEN v["blood_pressure_systolic"] ELSE 120
    IN  CASE sbp > 89 -> 4 [] sbp \in 76..89 -> 3 [] sbp \in 50..75 -> 2 [] OTHER -> 1
RrBand(v) ==
    LET rr == IF "respiratory_rate" \in DOMAIN v THEN v["respiratory_rate"] ELSE 16
    IN  CASE rr \in 10..29 -> 4 [] rr > 29 -> 3 [] rr \in 6..9 -> 2 [] OTHER -> 1

\* 0.9368*g + 0.7326*s + 0.2908*r in ten-thousandths.
TraumaTotal(v) == 9368 * GcsBand(v) + 7326 * SbpBand(v) + 2908 * RrBand(v)

\* w is v with one input moved to a more severe band, the others as they were.
OneBandWorse(v, w) ==
    \/ GcsBand(w) < GcsBand(v) /\ SbpBand(w) = SbpBand(v) /\ RrBand(w) = RrBand(v)
    \/ GcsBand(w) = GcsBand(v) /\ SbpBand(w) < SbpBand(v) /\ RrBand(w) = RrBand(v)
    \/ GcsBand(w) = GcsBand(v) /\ SbpBand(w) = SbpBand(v) /\ RrBand(w) < RrBand(v)

\* C22: calculate_trauma_score bands GCS (>=13:4, >=9:3, >=6:2, else 1), SBP
\* (>89:4, >=76:3, >=50:2, else 1) and respiratory rate (10..29:4, >29:3, >=6:2,
\* else 1), returns 0.9368*g + 0.7326*s + 0.2908*r rounded to two decimals, and
\* reads the total as Minor Trauma iff > 7, Moderate Trauma iff in (5, 7],
\* Severe Trauma otherwise; the total never increases when one input moves to
\* a more severe band; and the TRAUMA alert, raised on the rounded score < 5,
\* agrees with the Trauma Team Activation recommendation, made on the
\* unrounded total < 5.
C22_TraumaScore ==
    call.fn = "calculate_trauma_score" =>
        LET total == TraumaTotal(call.vitals)
            score == call.result.score
            alerts == predict_active_alerts(EmptyDict, EmptyDict, [trauma_score |-> call.result])
        IN  /\ 100 * score - 50 <= total /\ total < 100 * score + 50
            /\ call.result.max_score = 784
            /\ call.result.interpretation =
                   (IF total > 70000 THEN "Minor Trauma"
                    ELSE IF total > 50000 THEN "Moderate Trauma" ELSE "Severe Trauma")
            /\ (call.result.recommendation = "Trauma Team Activation") = (total < 50000)
            /\ call.result.recommendation \in {"Trauma Team Activation", "Standard Trauma Protocol"}
            /\ InList("TRAUMA", alerts) = (call.result.recommendation = "Trauma Team Activation")
            /\ \A w \in TraumaVitals :
                   OneBandWorse(call.vitals, w) =>
                       /\ calculate_trauma_score(w).score <= score
                       /\ TraumaTotal(w) < total

\* The total closest below 5: GCS 6, SBP 76, RR 30 give 4.9438, returned as 4.94
\* with the trauma team activated.
C22_Witness ==
    /\ call.fn = "calculate_trauma_score"
    /\ call.vitals = [gcs |-> 6, blood_pressure_systolic |-> 76, respiratory_rate |-> 30]
    /\ call.result.score = 494
    /\ call.result.interpretation = "Severe Trauma"
    /\ call.result.recommendation = "Trauma Team Activation"

\* A patient of the session arrives in the step: EN_ROUTE before, ARRIVED after.
ArrivesInStep(p) ==
    p \in DOMAIN patients /\ patients[p].status = "EN_ROUTE" /\ patients'[p].status = "ARRIVED"

\* What one call of update_hospital_resources took from before to leave after:
\* at most one ICU bed, ventilator, OR room and CT scanner, and two units of
\* O-neg blood or none.
OnePatientsShare(before, after) ==
    /\ before.icu_beds.available - after.icu_beds.available \in {0, 1}
    /\ before.ventilators.available - after.ventilators.available \in {0, 1}
    /\ before.or_rooms.available - after.or_rooms.available \in {0, 1}
    /\ before.ct_scanner.available - after.ct_scanner.available \in {0, 1}
    /\ before.blood_units_o_neg.available - after.blood_units_o_neg.available \in {0, 2}
    /\ after.mri_scanner = before.mri_scanner
    /\ after.blood_units_o_pos = before.blood_units_o_pos

\* A patient is en route without summary or resource update, or has arrived
\* with the summary written and the resources updated once.
ArrivalProcessedOnce(patient_data) ==
    \/ /\ patient_data.status = "EN_ROUTE"
       /\ ~patient_data.handoff_summary
       /\ patient_data.resource_updates = 0
    \/ /\ patient_data.status = "ARRIVED"
       /\ patient_data.handoff_summary
       /\ patient_data.resource_updates = 1

\* A step of the session (not a direct call of update_hospital_resources on a
\* pool): what it does to the patient p and to the resources.
ArrivalStep(p) ==
    /\ patients'[p].status # patients[p].status => ArrivesInStep(p)
    /\ patients'[p].handoff_summary # patients[p].handoff_summary => ArrivesInStep(p)
    /\ patients'[p].resource_updates # patients[p].resource_updates => ArrivesInStep(p)
    /\ ArrivesInStep(p) =>
           /\ p = selected_patient'
           /\ upd'.caller = "main"
           /\ upd'.before = hospital_resources
           /\ upd'.after = hospital_resources'
           /\ OnePatientsShare(hospital_resources, hospital_resources')
    /\ patients[p].status = "ARRIVED" =>
           /\ patients'[p].telemetry_history = patients[p].telemetry_history
           /\ patients'[p].elapsed_time = patients[p].elapsed_time

\* C23: in the advanced dashboard a patient's status only moves from EN_ROUTE to
\* ARRIVED; the handoff summary is written and update_hospital_resources is
\* applied exactly once per patient, in the cycle of that move, so that one
\* patient takes at most one ICU bed, ventilator, OR room and CT scanner and
\* at most 2 units of O-neg blood; the resources change in no other cycle; and
\* after the arrival the patient's telemetry history and elapsed_time stay as
\* they are.
C23_ArrivalOnce ==
    /\ [](\A p \in DOMAIN patients : ArrivalProcessedOnce(patients[p]))
    /\ [](OnePatientsShare(upd.before, upd.after))
    /\ [][upd'.caller # "direct" =>
            /\ \A p \in DOMAIN patients : ArrivalStep(p)
            /\ (\A p \in DOMAIN patients : ~ArrivesInStep(p)) =>
                   hospital_resources' = hospital_resources /\ upd' = upd]_vars

\* The stroke patient has arrived after 30 readings and taken the CT scanner.
C23_Witness ==
    /\ patients["P-2024-002"].status = "ARRIVED"
    /\ patients["P-2024-002"].elapsed_time = 30
    /\ patients["P-2024-002"].resource_updates = 1
    /\ patients["P-2024-002"].handoff_summary
    /\ upd.before.ct_scanner.available - upd.after.ct_scanner.available = 1
    /\ hospital_resources = upd.after

\* The ids a patient of the session can have.
PatientIds == {"P-2024-" \o Format03d(n) : n \in 1..(InitialNextNum - 1 + MaxClicks)}

\* The patient pid is selected and en route; is no longer both.
SelectedEnRoute(pid) ==
    pid \in DOMAIN patients /\ selected_patient = pid /\ patients[pid].status = "EN_ROUTE"
ArrivedOrDeselected(pid) ==
    pid \in DOMAIN patients /\ (patients[pid].status = "ARRIVED" \/ selected_patient # pid)

\* A patient has arrived exactly if elapsed_time has reached 3 * initial_eta,
\* and elapsed_time goes no further.
ArrivedAtThreeEta(patient_data) ==
    /\ patient_data.elapsed_time <= 3 * patient_data.initial_eta
    /\ (patient_data.status = "ARRIVED") = (patient_data.elapsed_time = 3 * patient_data.initial_eta)

\* A cycle of main() with the patient selected' as the one displayed: that
\* patient, if en route, gets one reading and one unit of elapsed_time, and
\* every other patient is left as it was.
CycleAdvancesSelected(p) ==
    IF p = selected_patient' /\ patients[p].status = "EN_ROUTE"
    THEN /\ patients'[p].elapsed_time = patients[p].elapsed_time + 1
         /\ Len(patients'[p].telemetry_history) = Min(20, Len(patients[p].telemetry_history) + 1)
         /\ ArrivesInStep(p) = (patients'[p].elapsed_time = 3 * patients[p].initial_eta)
    ELSE /\ patients'[p].elapsed_time = patients[p].elapsed_time
         /\ patients'[p].telemetry_history = patients[p].telemetry_history
         /\ patients'[p].status = patients[p].status
         /\ p # selected_patient' => patients'[p] = patients[p]

\* C24: in the advanced dashboard an EN_ROUTE patient that stays selected over
\* successive refresh cycles eventually becomes ARRIVED, in the very cycle in
\* which its elapsed_time reaches 3 * initial_eta; a patient that is not the
\* selected one makes no progress in a cycle (elapsed_time, history and status
\* as before).
C24_SelectedPatientArrives ==
    /\ [](\A p \in DOMAIN patients : ArrivedAtThreeEta(patients[p]))
    /\ [][(patients' # patients /\ DOMAIN patients' = DOMAIN patients) =>
            \A p \in DOMAIN patients : CycleAdvancesSelected(p)]_vars
    /\ \A pid \in PatientIds : SelectedEnRoute(pid) ~> ArrivedOrDeselected(pid)

\* The trauma patient, selected by a click, has arrived on its 18th cycle
\* while the first patient has stayed at its one reading.
C24_Witness ==
    /\ selected_patient = "P-2024-003"
    /\ patients["P-2024-003"].status = "ARRIVED"
    /\ patients["P-2024-003"].elapsed_time = 18
    /\ patients["P-2024-003"].initial_eta = 6
    /\ patients["P-2024-001"].status = "EN_ROUTE"
    /\ patients["P-2024-001"].elapsed_time = 1

\* C25: in the processing cycle of the advanced dashboard
\* (calculate_clinical_scores) needs_icu is predicted whenever the severity
\* score computed in the same cycle is at least 60, so that a patient arriving
\* with severity >= 60 takes an ICU bed when one is available.
C25_SeverityGivesIcu ==
    call.fn = "calculate_clinical_scores" =>
        (call.result.severity.score >= 60 =>
            /\ call.result.predictions.predictions["needs_icu"]
            /\ \A pool \in Pools :
                   pool.icu_beds.available > 0 =>
                       update_hospital_resources(pool, call.result).icu_beds.available
                           = pool.icu_beds.available - 1)

\* A critical threshold, and an abnormal threshold, is crossed by the vital
\* signs of the call.
CriticalCrossed ==
    \/ call.vitals["heart_rate"] < 40 \/ call.vitals["heart_rate"] > 150
    \/ call.vitals["spo2"] < 85
    \/ call.vitals["blood_pressure_systolic"] < 70
AbnormalCrossed ==
    \/ call.vitals["heart_rate"] < 50 \/ call.vitals["heart_rate"] > 120
    \/ call.vitals["spo2"] < 90
    \/ call.vitals["blood_pressure_systolic"] < 90

\* C26: check_critical_vitals and check_vitals_alert return the most severe
\* level among the alerts triggered: CODE_BLUE_PREP iff a critical threshold is
\* crossed (HR < 40 or > 150, SpO2 < 85, SBP < 70), WARNING iff none is but an
\* abnormal threshold is, NORMAL iff the alert list is empty.
C26_MostSevereLevel ==
    call.fn \in {"check_vitals_alert", "check_critical_vitals"} =>
        /\ (call.result.severity = "CODE_BLUE_PREP") = CriticalCrossed
        /\ (call.result.severity = "WARNING") = (~CriticalCrossed /\ AbnormalCrossed)
        /\ (call.result.severity = "NORMAL") = (call.result.alerts = <<>>)

\* The SSN and the first and last names that the simulator puts in its notes.
EmbeddedPii == {patient_ssn, "John", "Smith", "Sarah", "Johnson"}

\* C27: for every note the EMTVoiceSimulator can emit (each MI note, each
\* trauma note and the final arrival note) the Aparavi-redacted note that the
\* dashboard shows contains no part of the embedded PII: not the SSN
\* 123-45-6789, not John or Smith, not Sarah or Johnson.
C27_RedactedNotesHideNames ==
    call.fn = "redact_voice_note" =>
        \A pii \in EmbeddedPii : ~Contains(call.voice_data.redacted_note, pii)

(***************************************************************************)
(* C28                                                                     *)
(***************************************************************************)

\* The note the voice section displays is the last one of voice_notes.
NoteDisplayed(text) ==
    /\ er.voice_notes # <<>>
    /\ er.voice_notes[Len(er.voice_notes)].voice_note = text

\* The notes of the dashboards' scenario, then the final arrival note.
ScenarioNotes == {mi_scenario_notes[i] : i \in 1..Len(mi_scenario_notes)} \cup {final_update}

\* C28: in both ER dashboards the displayed ETA never increases from one
\* refresh cycle to the next and eventually reaches 0, and every note of the
\* scenario, the five MI notes and then the final arrival note, is eventually
\* the note displayed.
C28_EtaReachesZeroAllNotesShown ==
    /\ [][displayed_eta(er.telemetry_history') <= displayed_eta(er.telemetry_history)]_vars
    /\ <>(displayed_eta(er.telemetry_history) = 0)
    /\ \A text \in ScenarioNotes : <>NoteDisplayed(text)

\* What the code does instead: the history is cut to 20 readings, so the ETA
\* stays at 2 or above and at most four notes are ever generated.
C28_EtaStopsAtTwo ==
    /\ displayed_eta(er.telemetry_history) >= 2
    /\ Len(er.voice_notes) <= 4
    /\ ~NoteDisplayed(final_update)
    /\ ~NoteDisplayed(mi_scenario_notes[5])

(***************************************************************************)
(* C29                                                                     *)
(***************************************************************************)

\* C29: stream_data terminates: once the notes of the scenario and the final
\* arrival note have been yielded, the test of the loop fails, the break is
\* taken and the generator yields no more.
C29_StreamTerminates ==
    /\ <>(voice.stream = "stopped")
    /\ [](voice.stream = "stopped" => [](voice.stream = "stopped"))

\* What the code does instead: the cursor never passes the length of the
\* list, so the test of the loop never fails.
C29_CursorWithinList ==
    /\ voice.sim.current_note_index <= Len(get_scenario_notes(voice.sim))
    /\ voice.stream # "stopped"

(***************************************************************************)
(* C30                                                                     *)
(***************************************************************************)

\* Of a call of the three predictors on the same vitals and scores.
TriageAlert(alert)       == InList(alert, call.result.active_alerts)
TriagePrediction(key)    == call.result.predictions[key]
TriageProtocol(protocol) == protocol \in DOMAIN call.result.activated_protocols

\* C30: alerts, predictions and protocols derived from the same vitals and
\* scores agree: a predicted cardiac arrest comes with the
\* CARDIAC_ARREST_RISK alert and the CODE_BLUE_PREP protocol, a predicted
\* need of an operating room comes with the TRAUMA alert, and the STEMI,
\* STROKE and SEPSIS alerts are raised exactly when likely_stemi,
\* likely_stroke and likely_sepsis are predicted.
C30_AlertsPredictionsProtocolsAgree ==
    call.fn = "triage" =>
        /\ TriagePrediction("cardiac_arrest_imminent") =>
               TriageAlert("CARDIAC_ARREST_RISK") /\ TriageProtocol("CODE_BLUE_PREP")
        /\ TriagePrediction("needs_or") => TriageAlert("TRAUMA")
        /\ TriageAlert("STEMI") <=> TriagePrediction("likely_stemi")
        /\ TriageAlert("STROKE") <=> TriagePrediction("likely_stroke")
        /\ TriageAlert("SEPSIS") <=> TriagePrediction("likely_sepsis")

\* A patient with GCS 4 and systolic pressure 59, trauma score 3.99, STEMI
\* checklist 3, NIHSS 8 and qSOFA 2: every prediction of the claim is made,
\* all five alerts are raised and their protocols activated.
C30_Witness ==
    /\ call.fn = "triage"
    /\ call.vitals = [gcs |-> 4, blood_pressure_systolic |-> 59, spo2 |-> 80]
    /\ ScoreGet(call.scores, "trauma_score", "score", 700) = 399
    /\ TriagePrediction("cardiac_arrest_imminent") /\ TriagePrediction("needs_or")
    /\ TriagePrediction("likely_stemi") /\ TriagePrediction("likely_stroke")
    /\ TriagePrediction("likely_sepsis")
    /\ call.result.active_alerts = <<"STEMI", "STROKE", "TRAUMA", "SEPSIS", "CARDIAC_ARREST_RISK">>
    /\ DOMAIN call.result.activated_protocols =
           {"STEMI_PROTOCOL", "STROKE_PROTOCOL", "TRAUMA_PROTOCOL", "SEPSIS_PROTOCOL",
            "AIRWAY_PREP", "CODE_BLUE_PREP"}

====
